---- MODULE Spec2Model ----
(***************************************************************************)
(* Fee determination engine of dot-dabstep-eval: the rule matcher, the     *)
(* specificity resolver, the pricing formula and the query layer of        *)
(* scripts/offline_solver.py, with the parallel implementations of         *)
(* dev_answerer.py and scripts/build_datasource.py.                        *)
(*                                                                         *)
(* Encoding of Python values.                                              *)
(*   None                 the string "None"                                *)
(*   True / False         the strings "True" / "False"                     *)
(*   JSON numbers 0.0/1.0 the strings "0.0" / "1.0" (Num gives the value)  *)
(*   list-or-None         [none |-> BOOLEAN, items |-> set]                *)
(*   money                fixed_amount in cents, eur_amount in whole EUR,  *)
(*                        a fee in units of 1/10000 EUR; a realized fee    *)
(*                        (a mean over at most MaxRules rules) in units of *)
(*                        1/(10000 * MeanScale) EUR, so every mean is an   *)
(*                        exact integer. Floating-point rounding is not    *)
(*                        modelled.                                        *)
(***************************************************************************)
EXTENDS Integers, Sequences, FiniteSets, TLC

VARIABLES
    rule,            \* SpecRule: the fee rule under evaluation
    matched,         \* SpecRule: the contexts each matcher accepted
    scores,          \* SpecRule: specificity scores of the rule, or "unset"
    fees,            \* engine.fees: the rule list
    fee_by_id,       \* engine.fee_by_id: ID -> index of the rule object in fees
    merchant_info,   \* engine.merchant_info
    monthly_lookup,  \* engine.monthly_lookup
    payments,        \* engine.payments (rows after preprocess)
    loaded,          \* the snapshot taken when the engine was constructed
    last             \* the last query answered and its result

vars == <<rule, matched, scores, fees, fee_by_id, merchant_info,
          monthly_lookup, payments, loaded, last>>

ruleVars == <<rule, matched, scores>>
engineVars == <<fees, fee_by_id, merchant_info, monthly_lookup, payments, loaded, last>>

----------------------------------------------------------------------------
(* Python values *)

None == "None"

NoneList == [none |-> TRUE, items |-> {}]

List(S) == [none |-> FALSE, items |-> S]

\* Truth value of a list-or-None: None and [] are falsy.
Truthy(l) == ~l.none /\ l.items # {}

\* x in l for a list l (only evaluated when l is truthy, hence a list).
In(x, l) == x \in l.items

\* Numeric value of a JSON number (int(...) and float(...) agree on 0.0 / 1.0).
Num(x) == IF x = "1.0" THEN 1 ELSE 0

----------------------------------------------------------------------------
(* Matcher *)

\* DABStepEngine.fee_matches: a is the record of keyword arguments.
fee_matches_no_mcc(fee_rule, a) ==
    IF a.card_scheme # None /\ fee_rule.card_scheme # a.card_scheme THEN FALSE
    ELSE IF Truthy(fee_rule.account_type) /\ ~In(a.account_type, fee_rule.account_type) THEN FALSE
    ELSE IF fee_rule.capture_delay # None /\ fee_rule.capture_delay # a.capture_delay_bucket THEN FALSE
    ELSE IF fee_rule.monthly_fraud_level # None /\ fee_rule.monthly_fraud_level # a.monthly_fraud_level THEN FALSE
    ELSE IF fee_rule.monthly_volume # None /\ fee_rule.monthly_volume # a.monthly_volume THEN FALSE
    ELSE IF fee_rule.is_credit # None /\ fee_rule.is_credit # a.is_credit THEN FALSE
    ELSE IF Truthy(fee_rule.aci) /\ ~In(a.aci, fee_rule.aci) THEN FALSE
    ELSE IF fee_rule.intracountry # None /\ Num(fee_rule.intracountry) # a.intracountry THEN FALSE
    ELSE TRUE

fee_matches(fee_rule, a) ==
    IF a.card_scheme # None /\ fee_rule.card_scheme # a.card_scheme THEN FALSE
    ELSE IF Truthy(fee_rule.account_type) /\ ~In(a.account_type, fee_rule.account_type) THEN FALSE
    ELSE IF fee_rule.capture_delay # None /\ fee_rule.capture_delay # a.capture_delay_bucket THEN FALSE
    ELSE IF fee_rule.monthly_fraud_level # None /\ fee_rule.monthly_fraud_level # a.monthly_fraud_level THEN FALSE
    ELSE IF fee_rule.monthly_volume # None /\ fee_rule.monthly_volume # a.monthly_volume THEN FALSE
    ELSE IF Truthy(fee_rule.merchant_category_code) /\ ~In(a.mcc, fee_rule.merchant_category_code) THEN FALSE
    ELSE IF fee_rule.is_credit # None /\ fee_rule.is_credit # a.is_credit THEN FALSE
    ELSE IF Truthy(fee_rule.aci) /\ ~In(a.aci, fee_rule.aci) THEN FALSE
    ELSE IF fee_rule.intracountry # None /\ Num(fee_rule.intracountry) # a.intracountry THEN FALSE
    ELSE TRUE

\* dev_answerer.matches_list
matches_list(fee_val, target) ==
    IF fee_val.none \/ fee_val.items = {} THEN TRUE
    ELSE target \in fee_val.items

\* dev_answerer.fee_matches_txn
fee_matches_txn(fee, txn, m, cd_bucket, vol_tier, fraud_tier) ==
    IF fee.card_scheme # txn.card_scheme THEN FALSE
    ELSE IF ~matches_list(fee.account_type, m.account_type) THEN FALSE
    ELSE IF ~matches_list(fee.aci, txn.aci) THEN FALSE
    ELSE IF ~matches_list(fee.merchant_category_code, m.merchant_category_code) THEN FALSE
    ELSE IF fee.is_credit # None /\ fee.is_credit # txn.is_credit THEN FALSE
    ELSE IF fee.capture_delay # None /\ fee.capture_delay # cd_bucket THEN FALSE
    ELSE IF fee.intracountry # None
            /\ LET ic == IF txn.issuing_country = txn.acquirer_country THEN 1 ELSE 0
               IN  Num(fee.intracountry) # ic THEN FALSE
    ELSE IF fee.monthly_volume # None
            /\ (vol_tier = None \/ fee.monthly_volume # vol_tier) THEN FALSE
    ELSE IF fee.monthly_fraud_level # None
            /\ (fraud_tier = None \/ fee.monthly_fraud_level # fraud_tier) THEN FALSE
    ELSE TRUE

----------------------------------------------------------------------------
(* Specificity *)

\* DABStepEngine.fee_specificity
fee_specificity(fee_rule) ==
      (IF Truthy(fee_rule.account_type) THEN 1 ELSE 0)
    + (IF fee_rule.capture_delay # None THEN 1 ELSE 0)
    + (IF fee_rule.monthly_fraud_level # None THEN 1 ELSE 0)
    + (IF fee_rule.monthly_volume # None THEN 1 ELSE 0)
    + (IF Truthy(fee_rule.merchant_category_code) THEN 1 ELSE 0)
    + (IF fee_rule.is_credit # None THEN 1 ELSE 0)
    + (IF Truthy(fee_rule.aci) THEN 1 ELSE 0)
    + (IF fee_rule.intracountry # None THEN 1 ELSE 0)

\* A variant of the dev score that counts a list criterion whenever it is not
\* None, the empty list included; used to check the sensitivity of the
\* comparison of the two scores.
specificity_lists_not_none(fee) ==
      1
    + (IF ~fee.account_type.none THEN 1 ELSE 0)
    + (IF ~fee.aci.none THEN 1 ELSE 0)
    + (IF ~fee.merchant_category_code.none THEN 1 ELSE 0)
    + (IF fee.is_credit # None THEN 1 ELSE 0)
    + (IF fee.capture_delay # None THEN 1 ELSE 0)
    + (IF fee.intracountry # None THEN 1 ELSE 0)
    + (IF fee.monthly_volume # None THEN 1 ELSE 0)
    + (IF fee.monthly_fraud_level # None THEN 1 ELSE 0)

\* dev_answerer.specificity: starts at 1 for card_scheme.
specificity(fee) ==
      1
    + (IF Truthy(fee.account_type) /\ Cardinality(fee.account_type.items) > 0 THEN 1 ELSE 0)
    + (IF Truthy(fee.aci) /\ Cardinality(fee.aci.items) > 0 THEN 1 ELSE 0)
    + (IF Truthy(fee.merchant_category_code)
          /\ Cardinality(fee.merchant_category_code.items) > 0 THEN 1 ELSE 0)
    + (IF fee.is_credit # None THEN 1 ELSE 0)
    + (IF fee.capture_delay # None THEN 1 ELSE 0)
    + (IF fee.intracountry # None THEN 1 ELSE 0)
    + (IF fee.monthly_volume # None THEN 1 ELSE 0)
    + (IF fee.monthly_fraud_level # None THEN 1 ELSE 0)

(* scripts/build_datasource.py: the normalized fee table.                  *)

\* as_list, for the None and list cases of a fees.json field.
as_list(x) == IF x.none THEN List({}) ELSE x

\* explode_or_star: the values of a list, or {"*"} for an empty list.
explode_or_star(vals) == IF vals.items # {} THEN vals.items ELSE {"*"}

\* json.dumps of a list: the text as a sequence of tokens, "[" ... "]".
RECURSIVE JsonItems(_)
JsonItems(S) ==
    IF S = {} THEN <<>>
    ELSE LET x == CHOOSE y \in S : TRUE IN <<x>> \o JsonItems(S \ {x})

json_dumps(v) == <<"[">> \o JsonItems(v.items) \o <<"]">>

\* pd.DataFrame(fees): a column holding None and numbers only becomes float64
\* and its None cells NaN, as soon as one cell is a number; a column of
\* strings, booleans or only None stays object and keeps None.
DataFrameCell(column, v) ==
    IF v = None /\ (\E w \in column : w \in {"0.0", "1.0"}) THEN "NaN" ELSE v

\* pd.notna(v) and v is not None
NotNa(v) == v # "NaN" /\ v # None

\* The row of df that _specificity_score_row receives when explode is false:
\* list columns through as_list and then json.dumps.
RowNoExplode(fs, i) ==
    LET r == fs[i] IN
    [account_type           |-> json_dumps(as_list(r.account_type)),
     merchant_category_code |-> json_dumps(as_list(r.merchant_category_code)),
     aci                    |-> json_dumps(as_list(r.aci)),
     capture_delay          |-> r.capture_delay,
     monthly_fraud_level    |-> r.monthly_fraud_level,
     monthly_volume         |-> r.monthly_volume,
     is_credit              |-> r.is_credit,
     intracountry           |-> DataFrameCell({fs[j].intracountry : j \in DOMAIN fs},
                                              r.intracountry)]

\* _specificity_score_row: a text cell is truthy iff it is not empty.
_specificity_score_row(r) ==
      (IF Len(r.account_type) > 0 THEN 1 ELSE 0)
    + (IF Len(r.merchant_category_code) > 0 THEN 1 ELSE 0)
    + (IF Len(r.aci) > 0 THEN 1 ELSE 0)
    + (IF NotNa(r.capture_delay) THEN 1 ELSE 0)
    + (IF NotNa(r.monthly_fraud_level) THEN 1 ELSE 0)
    + (IF NotNa(r.monthly_volume) THEN 1 ELSE 0)
    + (IF NotNa(r.is_credit) THEN 1 ELSE 0)
    + (IF NotNa(r.intracountry) THEN 1 ELSE 0)

\* The exploded rows of rule i (build_fees_normalized, explode branch): one
\* per combination of account type, MCC and ACI, scalars None -> "*".
RowsExploded(fs, i) ==
    LET r == fs[i]
        ic == DataFrameCell({fs[j].intracountry : j \in DOMAIN fs}, r.intracountry)
        Star(v) == IF v # None THEN v ELSE "*"
    IN  { [account_type           |-> acct,
           merchant_category_code |-> mcc,
           aci                    |-> aci,
           capture_delay          |-> Star(r.capture_delay),
           monthly_fraud_level    |-> Star(r.monthly_fraud_level),
           monthly_volume         |-> Star(r.monthly_volume),
           is_credit              |-> Star(r.is_credit),
           intracountry           |-> Star(ic)] :
          acct \in explode_or_star(as_list(r.account_type)),
          mcc  \in { ToString(x) : x \in explode_or_star(as_list(r.merchant_category_code)) },
          aci  \in explode_or_star(as_list(r.aci)) }

\* _specificity_score_flat
_specificity_score_flat(row) ==
      (IF row.account_type # "*" THEN 1 ELSE 0)
    + (IF row.merchant_category_code # "*" THEN 1 ELSE 0)
    + (IF row.aci # "*" THEN 1 ELSE 0)
    + (IF row.capture_delay # "*" THEN 1 ELSE 0)
    + (IF row.monthly_fraud_level # "*" THEN 1 ELSE 0)
    + (IF row.monthly_volume # "*" THEN 1 ELSE 0)
    + (IF row.is_credit # "*" THEN 1 ELSE 0)
    + (IF row.intracountry # "*" THEN 1 ELSE 0)

----------------------------------------------------------------------------
(* Sequences *)

RECURSIVE SumSeq(_)
SumSeq(q) == IF q = <<>> THEN 0 ELSE Head(q) + SumSeq(Tail(q))

Range(q) == { q[i] : i \in DOMAIN q }

MaxOf(S) == CHOOSE x \in S : \A y \in S : y <= x

\* sorted(S) for a set of integers or of strings ordered by Before.
RECURSIVE SortedInts(_)
SortedInts(S) ==
    IF S = {} THEN <<>>
    ELSE LET x == CHOOSE y \in S : \A z \in S : y <= z
         IN  <<x>> \o SortedInts(S \ {x})

RECURSIVE Factorial(_)
Factorial(n) == IF n <= 1 THEN 1 ELSE n * Factorial(n - 1)

----------------------------------------------------------------------------
(* Pricing and conflict resolution *)

\* compute_fee, in units of 1/10000 EUR (fixed_amount in cents, amount in EUR).
compute_fee(fee_rule, amount) == fee_rule.fixed_amount * 100 + fee_rule.rate * amount

\* select_applied_rules: the sub-list of the rules of maximal specificity.
select_first_most_specific(matching) ==
    IF matching = <<>> THEN <<>>
    ELSE LET max_spec == MaxOf({ fee_specificity(matching[i]) : i \in DOMAIN matching })
             first == CHOOSE i \in DOMAIN matching :
                        /\ fee_specificity(matching[i]) = max_spec
                        /\ \A j \in 1..(i - 1) : fee_specificity(matching[j]) # max_spec
         IN  <<matching[first]>>

select_applied_rules(matching) ==
    IF matching = <<>> THEN <<>>
    ELSE LET max_spec == MaxOf({ fee_specificity(matching[i]) : i \in DOMAIN matching })
         IN  SelectSeq(matching, LAMBDA f : fee_specificity(f) = max_spec)

----------------------------------------------------------------------------
(* The data the engine is loaded with: fees.json is any sub-list of        *)
(* MasterFees, payments.csv any list of at most MaxTxns rows of TxnPool.   *)

MaxTxns == 2

Wild ==
    [account_type |-> NoneList, capture_delay |-> None, monthly_fraud_level |-> None,
     monthly_volume |-> None, merchant_category_code |-> List({}), is_credit |-> None,
     aci |-> NoneList, intracountry |-> None]

Fee(id, scheme, fixed, rate, crit) ==
    [ID |-> id, card_scheme |-> scheme,
     account_type |-> crit.account_type, capture_delay |-> crit.capture_delay,
     monthly_fraud_level |-> crit.monthly_fraud_level, monthly_volume |-> crit.monthly_volume,
     merchant_category_code |-> crit.merchant_category_code, is_credit |-> crit.is_credit,
     aci |-> crit.aci, intracountry |-> crit.intracountry,
     fixed_amount |-> fixed, rate |-> rate]

MasterFees ==
    << Fee(17, "GlobalCard", 100, 0, Wild),
       Fee(29, "GlobalCard", 0, 200, [Wild EXCEPT !.aci = List({"A", "B"})]),
       Fee(36, "GlobalCard", 100, 0,
           [Wild EXCEPT !.account_type = List({"R"}), !.merchant_category_code = NoneList]),
       Fee(51, "NexPay", 50, 100,
           [Wild EXCEPT !.monthly_volume = "<100k", !.capture_delay = "<3",
                        !.merchant_category_code = List({5942, 5812}),
                        !.intracountry = "1.0"]),
       Fee(64, "NexPay", 100, 0,
           [Wild EXCEPT !.account_type = List({}), !.aci = List({})]),
       Fee(384, "GlobalCard", 0, 100, [Wild EXCEPT !.is_credit = "True"]) >>

Txn(merchant, scheme, aci, credit, amount, issuing, year, day, fraud) ==
    [merchant |-> merchant, card_scheme |-> scheme, aci |-> aci, is_credit |-> credit,
     eur_amount |-> amount, issuing_country |-> issuing, acquirer_country |-> "NL",
     year |-> year, day_of_year |-> day, has_fraudulent_dispute |-> fraud]

TxnPool ==
    << Txn("Belles_cookbook_store", "GlobalCard", "A", "True", 100, "NL", 2023, 10, "True"),
       Txn("Belles_cookbook_store", "NexPay", "C", "False", 100, "NL", 2023, 40, "False"),
       Txn("Belles_cookbook_store", "NexPay", "A", "True", 200, "NL", 2023, 20, "True"),
       Txn("Crossfit_Hanna", "GlobalCard", "B", "True", 100, "BE", 2023, 10, "True"),
       Txn("Crossfit_Hanna", "NexPay", "A", "False", 100, "NL", 2022, 10, "False") >>

MerchantTable ==
    [m \in {"Belles_cookbook_store", "Crossfit_Hanna"} |->
        IF m = "Belles_cookbook_store"
        THEN [merchant |-> m, account_type |-> "R", merchant_category_code |-> 5942,
              capture_delay |-> "1", capture_delay_bucket |-> "<3"]
        ELSE [merchant |-> m, account_type |-> "F", merchant_category_code |-> 7997,
              capture_delay |-> "manual", capture_delay_bucket |-> "manual"]]

MonthlyTable ==
    [k \in {<<"Belles_cookbook_store", 2023, 1>>, <<"Crossfit_Hanna", 2023, 1>>} |->
        IF k[1] = "Belles_cookbook_store"
        THEN [volume_tier |-> "<100k", fraud_tier |-> "<7.2%"]
        ELSE [volume_tier |-> "100k-1m", fraud_tier |-> "<7.2%"]]

\* A rule ID that no rule of MasterFees has.
UnknownFeeId == 999

\* Every sub-list of q (the elements at any set of positions, in order).
SubSeqs(q) ==
    { LET idx == SortedInts(I) IN [k \in 1..Len(idx) |-> q[idx[k]]] : I \in SUBSET DOMAIN q }

\* Every list of at most n rows of pool, up to the order of the rows.
RowLists(pool, n) ==
    { [k \in DOMAIN idx |-> pool[idx[k]]] :
        idx \in { s \in UNION { [1..len -> DOMAIN pool] : len \in 0..n } :
                    \A k \in 1..(Len(s) - 1) : s[k] <= s[k + 1] } }

\* A realized fee is a mean over at most Len(MasterFees) rules.
MeanScale == Factorial(Len(MasterFees))

----------------------------------------------------------------------------
(* DABStepEngine: an engine e is the record of its tables                  *)
(* [fees, fee_by_id, merchant_info, monthly_lookup, payments].             *)

\* Alphabetical order of the strings that the code sorts.
SchemeOrder == <<"GlobalCard", "NexPay">>

AciOrder == <<"A", "B", "C", "D", "E", "F", "G">>

MerchantOrder == <<"Belles_cookbook_store", "Crossfit_Hanna">>

\* sorted(S) for a set S of strings of the given alphabet.
Sorted(order, S) == SelectSeq(order, LAMBDA x : x \in S)

\* Month lengths of the year 2023 (datetime.date arithmetic).
MonthDaysLeapYear == <<31, 29, 31, 30, 31, 30, 31, 31, 30, 31, 30, 31>>

MonthDays == <<31, 28, 31, 30, 31, 30, 31, 31, 30, 31, 30, 31>>

\* date(2023, 1, 1) + timedelta(days = day_of_year - 1), its month.
RECURSIVE MonthFrom(_, _)
MonthFrom(m, d) == IF m < 12 /\ d > MonthDays[m] THEN MonthFrom(m + 1, d - MonthDays[m]) ELSE m

day_to_month(day_of_year) == MonthFrom(1, day_of_year)

\* preprocess: the derived columns month and intracountry of a payments row.
PreprocessRow(row) ==
    [merchant |-> row.merchant, card_scheme |-> row.card_scheme, aci |-> row.aci,
     is_credit |-> row.is_credit, eur_amount |-> row.eur_amount,
     issuing_country |-> row.issuing_country, acquirer_country |-> row.acquirer_country,
     year |-> row.year, day_of_year |-> row.day_of_year,
     has_fraudulent_dispute |-> row.has_fraudulent_dispute,
     month |-> day_to_month(row.day_of_year),
     intracountry |-> IF row.issuing_country = row.acquirer_country THEN 1 ELSE 0]

\* preprocess: fee_by_id = {f['ID']: f for f in self.fees}; the value is the
\* rule object itself, here its index in fees (the last one with that ID).
BuildFeeById(fs) ==
    [id \in { fs[i].ID : i \in DOMAIN fs } |->
        CHOOSE i \in DOMAIN fs : fs[i].ID = id /\ \A j \in DOMAIN fs : fs[j].ID = id => j <= i]

\* preprocess: card_schemes = sorted(set(f['card_scheme'] for f in fees))
card_schemes(e) == Sorted(SchemeOrder, { e.fees[i].card_scheme : i \in DOMAIN e.fees })

\* preprocess: all_acis = sorted(payments['aci'] ... unique())
all_acis(e) == Sorted(AciOrder, { e.payments[i].aci : i \in DOMAIN e.payments })

\* get_merchant_txns; month and day are {} for None, {v} for a value (the
\* months argument is left at its default None).
get_merchant_txns(e, merchant, year, month, day) ==
    SelectSeq(e.payments, LAMBDA r :
        /\ r.merchant = merchant
        /\ r.year = year
        /\ IF day # {} THEN r.day_of_year \in day
           ELSE IF month # {} THEN r.month \in month
           ELSE TRUE)

\* monthly_lookup.get(key, {}) followed by stats.get(...) on both tiers.
MonthlyGetLowestTier(ml, key) ==
    IF key \in DOMAIN ml THEN ml[key] ELSE [volume_tier |-> "<100k", fraud_tier |-> "<7.2%"]

MonthlyGet(ml, key) ==
    IF key \in DOMAIN ml THEN ml[key] ELSE [volume_tier |-> None, fraud_tier |-> None]

\* The keyword arguments txn_fee and its siblings pass to fee_matches.
CallArgs(e, txn_row, merchant_name) ==
    LET mi == e.merchant_info[merchant_name]
        stats == MonthlyGet(e.monthly_lookup, <<merchant_name, txn_row.year, txn_row.month>>)
    IN  [card_scheme          |-> txn_row.card_scheme,
         account_type         |-> mi.account_type,
         capture_delay_bucket |-> mi.capture_delay_bucket,
         monthly_fraud_level  |-> stats.fraud_tier,
         monthly_volume       |-> stats.volume_tier,
         mcc                  |-> mi.merchant_category_code,
         is_credit            |-> txn_row.is_credit,
         aci                  |-> txn_row.aci,
         intracountry         |-> txn_row.intracountry]

\* The loop "for f in self.fees: if self.fee_matches(f, ...)".
MatchingRules(e, a) == SelectSeq(e.fees, LAMBDA f : fee_matches(f, a))

IdsOf(rules) == [i \in DOMAIN rules |-> rules[i].ID]

\* get_matching_fee_ids_for_txn
get_matching_fee_ids_applied_only(e, txn_row, merchant_name) ==
    IdsOf(select_applied_rules(MatchingRules(e, CallArgs(e, txn_row, merchant_name))))

get_matching_fee_ids_for_txn(e, txn_row, merchant_name) ==
    IdsOf(MatchingRules(e, CallArgs(e, txn_row, merchant_name)))


\* sum(fees) / len(fees), in units of 1/(10000 * MeanScale) EUR.
MeanAsSum(fee_list) == SumSeq(fee_list) * MeanScale

Mean(fee_list) == (SumSeq(fee_list) * MeanScale) \div Len(fee_list)

\* The tail of txn_fee: 0.0 without an applied rule, else the mean of the
\* fees of the applied rules, each replaced by its override when it has one.
AppliedFeeNoOverride(applied, amount, fee_overrides) ==
    IF applied = <<>> THEN 0
    ELSE Mean([i \in DOMAIN applied |-> compute_fee(applied[i], amount)])

AppliedFee(applied, amount, fee_overrides) ==
    IF applied = <<>> THEN 0
    ELSE Mean([i \in DOMAIN applied |->
                 compute_fee(IF applied[i].ID \in DOMAIN fee_overrides
                             THEN fee_overrides[applied[i].ID]
                             ELSE applied[i],
                             amount)])

\* The body shared by txn_fee, txn_fee_with_aci and txn_fee_with_scheme for
\* the keyword arguments a: its locals matching and applied (as ID lists)
\* and the value it returns (fee).
TxnSteps(e, a, amount, fee_overrides) ==
    LET matching == MatchingRules(e, a)
        applied == select_applied_rules(matching)
    IN  [matching |-> IdsOf(matching), applied |-> IdsOf(applied), amount |-> amount,
         fee |-> AppliedFee(applied, amount, fee_overrides)]

\* txn_fee; fee_overrides is <<>> for None.
txn_fee(e, txn_row, merchant_name, fee_overrides) ==
    TxnSteps(e, CallArgs(e, txn_row, merchant_name), txn_row.eur_amount, fee_overrides)

txn_fee_with_aci(e, txn_row, merchant_name, new_aci) ==
    TxnSteps(e, [CallArgs(e, txn_row, merchant_name) EXCEPT !.aci = new_aci],
             txn_row.eur_amount, <<>>)

txn_fee_with_scheme(e, txn_row, merchant_name, new_scheme) ==
    TxnSteps(e, [CallArgs(e, txn_row, merchant_name) EXCEPT !.card_scheme = new_scheme],
             txn_row.eur_amount, <<>>)

FeesOf(steps) == [i \in DOMAIN steps |-> steps[i].fee]

\* mi = self.merchant_info[merchant_name], the first statement of txn_fee
\* and of get_matching_fee_ids_for_txn (m = merchant_lookup[merchant_name]
\* in the dev answerer): it raises KeyError for a merchant without a
\* profile, on the first transaction a query evaluates.
HasProfile(e, merchant_name) == merchant_name \in DOMAIN e.merchant_info

----------------------------------------------------------------------------
(* Question solvers. Each returns a record: result is the value the code   *)
(* renders into its answer string (a number before "{:.Nf}" formatting, a  *)
(* sorted list before ', '.join), the other fields are its locals.         *)

\* solve_applicable_fee_ids
solve_applicable_fee_ids(e, merchant, year, month, day) ==
    LET txns == get_merchant_txns(e, merchant, year, month, day)
        ids == [i \in DOMAIN txns |-> get_matching_fee_ids_for_txn(e, txns[i], merchant)]
        all_ids == UNION { Range(ids[i]) : i \in DOMAIN txns }
    IN  IF txns # <<>> /\ ~HasProfile(e, merchant)
        THEN [status |-> "KeyError", result |-> <<>>, txns |-> txns]
        ELSE [status |-> "ok", result |-> SortedInts(all_ids), txns |-> txns]

\* solve_total_fees, after the merchant and the period are parsed.
solve_total_fees(e, merchant, year, month, day) ==
    LET txns == get_merchant_txns(e, merchant, year, month, day)
        steps == [i \in DOMAIN txns |-> txn_fee(e, txns[i], merchant, <<>>)]
    IN  IF txns # <<>> /\ ~HasProfile(e, merchant)
        THEN [status |-> "KeyError", result |-> 0, txns |-> txns, steps |-> <<>>]
        ELSE [status |-> "ok", result |-> SumSeq(FeesOf(steps)), txns |-> txns,
              steps |-> steps]

\* solve_fee_delta: the rate of a copy of the rule is replaced. Its first
\* statement, engine.fee_by_id[fee_id], raises KeyError for an ID that is
\* not in the rule list; no total is computed then.
solve_fee_delta(e, merchant, year, month, fee_id, new_rate) ==
    IF fee_id \notin DOMAIN e.fee_by_id
    THEN [status |-> "KeyError", result |-> 0, txns |-> <<>>, old |-> <<>>, new |-> <<>>]
    ELSE
    LET fee_rule == e.fees[e.fee_by_id[fee_id]]
        modified == [fee_rule EXCEPT !.rate = new_rate]
        fee_overrides == [id \in {fee_id} |-> modified]
        txns == get_merchant_txns(e, merchant, year, month, {})
        old == [i \in DOMAIN txns |-> txn_fee(e, txns[i], merchant, <<>>)]
        new == [i \in DOMAIN txns |-> txn_fee(e, txns[i], merchant, fee_overrides)]
        total_old == SumSeq(FeesOf(old))
        total_new == SumSeq(FeesOf(new))
    IN  [status |-> "ok", result |-> total_new - total_old, txns |-> txns,
         old |-> old, new |-> new]

\* The exceptions a solver can end in.
PyExceptions == {"KeyError", "TypeError", "ValueError", "StopIteration"}

\* run_evaluation around solve_question, and the dev answerer's main loop
\* around answer_funcs[tid](): "except Exception as e" makes the exception
\* the answer "ERROR: ..." and the loop goes on to the next question.
run_evaluation(out) ==
    IF out.status \in PyExceptions
    THEN [state |-> "answered", answer |-> "ERROR"]
    ELSE [state |-> "answered", answer |-> out.status]

\* The rule list after solve_fee_delta: modified = dict(fee_rule) is a new
\* object, so the assignment to modified['rate'] leaves every rule as it was.
FeesAfterDeltaAliased(e, fee_id, new_rate) ==
    IF fee_id \in DOMAIN e.fee_by_id
    THEN [e.fees EXCEPT ![e.fee_by_id[fee_id]].rate = new_rate]
    ELSE e.fees

FeesAfterDelta(e, fee_id, new_rate) == e.fees

\* The merchant-level pre-check of solve_merchants_affected.
PreCheckRawDelay(fee, mi) ==
    /\ ~(Truthy(fee.account_type) /\ ~In(mi.account_type, fee.account_type))
    /\ ~(fee.capture_delay # None /\ fee.capture_delay # mi.capture_delay)
    /\ ~(Truthy(fee.merchant_category_code)
         /\ ~In(mi.merchant_category_code, fee.merchant_category_code))

PreCheck(fee, mi) ==
    /\ ~(Truthy(fee.account_type) /\ ~In(mi.account_type, fee.account_type))
    /\ ~(fee.capture_delay # None /\ fee.capture_delay # mi.capture_delay_bucket)
    /\ ~(Truthy(fee.merchant_category_code)
         /\ ~In(mi.merchant_category_code, fee.merchant_category_code))

\* The transaction loop of solve_merchants_affected: some 2023 transaction
\* of the merchant matches the rule (tiers looked up under the year 2023).
SomeTxnMatches(e, fee, merchant_name) ==
    LET mi == e.merchant_info[merchant_name]
        txns == get_merchant_txns(e, merchant_name, 2023, {}, {})
    IN  \E i \in DOMAIN txns :
          LET txn == txns[i]
              stats == MonthlyGet(e.monthly_lookup, <<merchant_name, 2023, txn.month>>)
          IN  fee_matches(fee,
                [card_scheme          |-> txn.card_scheme,
                 account_type         |-> mi.account_type,
                 capture_delay_bucket |-> mi.capture_delay_bucket,
                 monthly_fraud_level  |-> stats.fraud_tier,
                 monthly_volume       |-> stats.volume_tier,
                 mcc                  |-> mi.merchant_category_code,
                 is_credit            |-> txn.is_credit,
                 aci                  |-> txn.aci,
                 intracountry         |-> txn.intracountry])

\* solve_merchants_affected
solve_merchants_affected(e, fee_id) ==
    LET fee == e.fees[e.fee_by_id[fee_id]]
        affected == { m \in DOMAIN e.merchant_info :
                        PreCheck(fee, e.merchant_info[m]) /\ SomeTxnMatches(e, fee, m) }
    IN  [result |-> Sorted(MerchantOrder, affected)]

\* solve_merchants_affected_change
solve_merchants_affected_change_no_skip(e, fee_id, new_acct_type) ==
    solve_merchants_affected(e, fee_id)

solve_merchants_affected_change(e, fee_id, new_acct_type) ==
    LET fee == e.fees[e.fee_by_id[fee_id]]
        affected == { m \in DOMAIN e.merchant_info :
                        /\ e.merchant_info[m].account_type # new_acct_type
                        /\ PreCheck(fee, e.merchant_info[m])
                        /\ SomeTxnMatches(e, fee, m) }
    IN  [result |-> Sorted(MerchantOrder, affected)]

\* min(totals, key=totals.get) / max(...): the first key, in the insertion
\* order keys, whose value is minimal / maximal.
ArgMin(keys, total) ==
    keys[CHOOSE i \in DOMAIN keys :
           /\ \A j \in DOMAIN keys : total[i] <= total[j]
           /\ \A j \in 1..(i - 1) : total[j] # total[i]]

ArgMaxLast(keys, total) ==
    keys[CHOOSE i \in DOMAIN keys :
           /\ \A j \in DOMAIN keys : total[i] >= total[j]
           /\ \A j \in (i + 1)..Len(keys) : total[j] # total[i]]

ArgMax(keys, total) ==
    keys[CHOOSE i \in DOMAIN keys :
           /\ \A j \in DOMAIN keys : total[i] >= total[j]
           /\ \A j \in 1..(i - 1) : total[j] # total[i]]

\* The candidate loop of solve_scheme_steering / solve_aci_incentive and the
\* choice of the best candidate; min() and max() of an empty dict raise.
BestCandidate(candidates, steps, minimize) ==
    LET total == [k \in DOMAIN candidates |-> SumSeq(FeesOf(steps[k]))]
        pos(c) == CHOOSE k \in DOMAIN candidates : candidates[k] = c
    IN  IF candidates = <<>>
        THEN [status |-> "error", best |-> "", total |-> 0,
              candidates |-> candidates, steps |-> steps]
        ELSE LET best == IF minimize THEN ArgMin(candidates, total)
                         ELSE ArgMax(candidates, total)
             IN  [status |-> "ok", best |-> best, total |-> total[pos(best)],
                  candidates |-> candidates, steps |-> steps]

\* solve_scheme_steering (get_merchant_txns with its default year 2023)
solve_scheme_steering(e, merchant, month, minimize) ==
    LET txns == get_merchant_txns(e, merchant, 2023, month, {})
        schemes == card_schemes(e)
        steps == [k \in DOMAIN schemes |->
                    [i \in DOMAIN txns |-> txn_fee_with_scheme(e, txns[i], merchant, schemes[k])]]
    IN  [result |-> BestCandidate(schemes, steps, minimize), txns |-> txns]

\* solve_aci_incentive
solve_aci_incentive(e, merchant, month, year) ==
    LET txns == get_merchant_txns(e, merchant, year, month, {})
        fraud_txns == SelectSeq(txns, LAMBDA r : r.has_fraudulent_dispute = "True")
        acis == all_acis(e)
        steps == [k \in DOMAIN acis |->
                    [i \in DOMAIN fraud_txns |->
                        txn_fee_with_aci(e, fraud_txns[i], merchant, acis[k])]]
    IN  IF fraud_txns = <<>>
        THEN [result |-> [status |-> "Not Applicable", best |-> "", total |-> 0,
                          candidates |-> <<>>, steps |-> <<>>],
              txns |-> fraud_txns]
        ELSE [result |-> BestCandidate(acis, steps, TRUE), txns |-> fraud_txns]

\* sum(fees) / len(fees) over the rules of a list, for one amount.
AverageFee(rules, amount) == Mean([i \in DOMAIN rules |-> compute_fee(rules[i], amount)])

\* solve_fee_ids_by_criteria
solve_fee_ids_by_criteria(e, acct_type, aci) ==
    LET matching == SelectSeq(e.fees, LAMBDA f :
                        /\ ~(Truthy(f.account_type) /\ ~In(acct_type, f.account_type))
                        /\ ~(Truthy(f.aci) /\ ~In(aci, f.aci)))
    IN  [status |-> "ok", result |-> SortedInts(Range(IdsOf(matching)))]

\* solve_most_expensive_mcc: "for mcc in f['merchant_category_code']" raises
\* TypeError on a rule whose merchant_category_code is None.
solve_most_expensive_mcc(e, amount) ==
    LET all_mccs == UNION { e.fees[i].merchant_category_code.items : i \in DOMAIN e.fees }
        matching(mcc) == SelectSeq(e.fees, LAMBDA f :
                            \/ ~Truthy(f.merchant_category_code)
                            \/ In(mcc, f.merchant_category_code))
        mcc_avg == [mcc \in all_mccs |-> AverageFee(matching(mcc), amount)]
    IN  IF \E i \in DOMAIN e.fees : e.fees[i].merchant_category_code.none
        THEN [status |-> "TypeError", result |-> <<>>]
        ELSE IF all_mccs = {}
        THEN [status |-> "Not Applicable", result |-> <<>>]
        ELSE LET max_fee == MaxOf({ mcc_avg[mcc] : mcc \in all_mccs })
             IN  [status |-> "ok",
                  result |-> SortedInts({ mcc \in all_mccs : mcc_avg[mcc] = max_fee })]

\* solve_most_expensive_aci: an ACI is a candidate when a rule fits it.
solve_most_expensive_aci(e, scheme, amount) ==
    LET matching(aci) == SelectSeq(e.fees, LAMBDA f :
                            /\ f.card_scheme = scheme
                            /\ ~(f.is_credit # None /\ f.is_credit # "True")
                            /\ ~(Truthy(f.aci) /\ ~In(aci, f.aci)))
        candidates == { aci \in Range(all_acis(e)) : matching(aci) # <<>> }
        aci_fees == [aci \in candidates |-> AverageFee(matching(aci), amount)]
    IN  IF candidates = {}
        THEN [status |-> "Not Applicable", result |-> "", candidates |-> candidates]
        ELSE LET max_fee == MaxOf({ aci_fees[aci] : aci \in candidates })
                 best == Sorted(AciOrder, { aci \in candidates : aci_fees[aci] = max_fee })
             IN  [status |-> "ok", result |-> best[1], candidates |-> candidates]

\* The dict scheme_avg of solve_cheapest_scheme / solve_most_expensive_scheme:
\* its keys in insertion order and their averages.
SchemeAverages(e, amount) ==
    LET matching(scheme) == SelectSeq(e.fees, LAMBDA f : f.card_scheme = scheme)
        keys == SelectSeq(card_schemes(e), LAMBDA scheme : matching(scheme) # <<>>)
    IN  [keys |-> keys,
         avg |-> [k \in DOMAIN keys |-> AverageFee(matching(keys[k]), amount)]]

\* solve_cheapest_scheme: min() of an empty dict raises ValueError.
solve_cheapest_scheme(e, amount) ==
    LET scheme_avg == SchemeAverages(e, amount)
    IN  IF scheme_avg.keys = <<>>
        THEN [status |-> "ValueError", result |-> "", candidates |-> {}]
        ELSE [status |-> "ok", result |-> ArgMin(scheme_avg.keys, scheme_avg.avg),
              candidates |-> Range(scheme_avg.keys)]

\* solve_most_expensive_scheme
solve_most_expensive_scheme(e, amount) ==
    LET scheme_avg == SchemeAverages(e, amount)
    IN  IF scheme_avg.keys = <<>>
        THEN [status |-> "ValueError", result |-> "", candidates |-> {}]
        ELSE [status |-> "ok", result |-> ArgMax(scheme_avg.keys, scheme_avg.avg),
              candidates |-> Range(scheme_avg.keys)]

----------------------------------------------------------------------------
(* dev_answerer.py: fees_raw is e.fees, merchant_lookup is e.merchant_info *)
(* (its raw capture_delay), monthly_stats is e.monthly_lookup.             *)

CD_MAP ==
    [d \in {"immediate", "1", "2", "3", "4", "5", "7", "manual"} |->
        CASE d = "immediate" -> "immediate"
          [] d \in {"1", "2"} -> "<3"
          [] d \in {"3", "4", "5"} -> "3-5"
          [] d = "7" -> ">5"
          [] OTHER -> "manual"]

get_capture_bucket(e, merchant_name) == CD_MAP[e.merchant_info[merchant_name].capture_delay]

\* get_monthly_tiers: <<volume_tier, fraud_tier>>, <<None, None>> without a row.
get_monthly_tiers(e, merchant_name, year, month) ==
    IF <<merchant_name, year, month>> \in DOMAIN e.monthly_lookup
    THEN LET row == e.monthly_lookup[<<merchant_name, year, month>>]
         IN  <<row.volume_tier, row.fraud_tier>>
    ELSE <<None, None>>

calc_fee(fee, amt) == fee.fixed_amount * 100 + fee.rate * amt

\* get_applied_fee: np.mean over the rules of maximal specificity; fee is
\* the value returned, applied its local (as an ID list).
get_applied_fee(matching_fees, amt) ==
    IF matching_fees = <<>> THEN [applied |-> <<>>, fee |-> 0]
    ELSE LET max_spec == MaxOf({ specificity(matching_fees[i]) : i \in DOMAIN matching_fees })
             applied == SelectSeq(matching_fees, LAMBDA f : specificity(f) = max_spec)
         IN  [applied |-> IdsOf(applied),
              fee |-> Mean([i \in DOMAIN applied |-> calc_fee(applied[i], amt)])]

\* answer_task_1871: next(f for f in fees_raw if f["ID"] == 384) raises
\* StopIteration when no rule has the ID; the delta is in the unit of a
\* realized fee.
answer_task_1871(e) ==
    LET merchant_name == "Belles_cookbook_store"
        m == e.merchant_info[merchant_name]
        cd_bucket == get_capture_bucket(e, merchant_name)
        tiers == get_monthly_tiers(e, merchant_name, 2023, 1)
        with384 == SelectSeq(e.fees, LAMBDA f : f.ID = 384)
        new_rate == 1
        txns == SelectSeq(e.payments, LAMBDA r :
                    /\ r.merchant = merchant_name
                    /\ r.year = 2023
                    /\ r.day_of_year >= 1
                    /\ r.day_of_year <= 31)
    IN  IF ~HasProfile(e, merchant_name)
        THEN [status |-> "KeyError", result |-> 0, txns |-> <<>>]
        ELSE IF with384 = <<>>
        THEN [status |-> "StopIteration", result |-> 0, txns |-> <<>>]
        ELSE LET fee384 == with384[1]
                 old_rate == fee384.rate
             IN  [status |-> "ok",
                  result |-> SumSeq([i \in DOMAIN txns |->
                      IF fee_matches_txn(fee384, txns[i], m, cd_bucket, tiers[1], tiers[2])
                      THEN (new_rate - old_rate) * txns[i].eur_amount * MeanScale
                      ELSE 0]),
                  txns |-> txns]

\* The payments table after answer_task_2697: the candidate ACI is written
\* to txn_mod = txn.copy(), never to a row of payments.
PaymentsAfterAciOverlay(e) == e.payments

\* answer_task_2697
answer_task_2697(e) ==
    LET merchant_name == "Belles_cookbook_store"
        m == e.merchant_info[merchant_name]
        cd_bucket == get_capture_bucket(e, merchant_name)
        tiers == get_monthly_tiers(e, merchant_name, 2023, 1)
        fraud_txns == SelectSeq(e.payments, LAMBDA r :
                        /\ r.merchant = merchant_name
                        /\ r.year = 2023
                        /\ r.day_of_year >= 1
                        /\ r.day_of_year <= 31
                        /\ r.has_fraudulent_dispute = "True")
        acis == AciOrder
        step(candidate_aci, txn) ==
            LET txn_mod == [txn EXCEPT !.aci = candidate_aci]
                matching == SelectSeq(e.fees, LAMBDA f :
                              fee_matches_txn(f, txn_mod, m, cd_bucket, tiers[1], tiers[2]))
            IN  [matching |-> IdsOf(matching),
                 applied |-> get_applied_fee(matching, txn.eur_amount).applied,
                 amount |-> txn.eur_amount,
                 fee |-> IF matching # <<>> THEN get_applied_fee(matching, txn.eur_amount).fee
                         ELSE 0]
        steps == [k \in DOMAIN acis |->
                    [i \in DOMAIN fraud_txns |-> step(acis[k], fraud_txns[i])]]
    IN  IF ~HasProfile(e, merchant_name)
        THEN [result |-> [status |-> "KeyError", best |-> "", total |-> 0,
                          candidates |-> <<>>, steps |-> <<>>],
              txns |-> <<>>]
        ELSE [result |-> BestCandidate(acis, steps, TRUE), txns |-> fraud_txns]

----------------------------------------------------------------------------
(* The engine answering questions. Init is the engine as constructed       *)
(* (load_data, preprocess); every action is one question solved on the     *)
(* current tables, its answer kept in last until NextQuestion.             *)

Engine ==
    [fees |-> fees, fee_by_id |-> fee_by_id, merchant_info |-> merchant_info,
     monthly_lookup |-> monthly_lookup, payments |-> payments]

Idle == [kind |-> "idle"]

Merchants == DOMAIN MerchantTable

NoRule ==
    /\ rule = MasterFees[1]
    /\ matched = [done |-> FALSE, offline |-> {}, dev |-> {},
                  offline_miss |-> {}, dev_miss |-> {},
                  offline_no_scheme |-> {}, dev_no_scheme |-> {}]
    /\ scores = [done |-> FALSE, offline |-> 0, dev |-> 0, row |-> 0, flat |-> {}]

Init ==
    /\ fees \in SubSeqs(MasterFees)
    /\ fee_by_id = BuildFeeById(fees)
    /\ merchant_info = MerchantTable
    /\ monthly_lookup = MonthlyTable
    /\ payments \in { [i \in DOMAIN rows |-> PreprocessRow(rows[i])] :
                        rows \in RowLists(TxnPool, MaxTxns) }
    /\ loaded = Engine
    /\ last = Idle
    /\ NoRule

Frame == UNCHANGED <<fees, fee_by_id, merchant_info, monthly_lookup, payments, loaded>>

ApplicableFeeIds ==
    /\ last.kind = "idle"
    /\ \E merchant \in Merchants, month \in {{}, {1}} :
         last' = [kind |-> "applicable_fee_ids",
                  args |-> [merchant |-> merchant, year |-> 2023, month |-> month, day |-> {}],
                  out |-> solve_applicable_fee_ids(Engine, merchant, 2023, month, {})]
    /\ Frame
    /\ UNCHANGED ruleVars

TotalFees ==
    /\ last.kind = "idle"
    /\ \E merchant \in Merchants, period \in {<<{1}, {}>>, <<{}, {10}>>} :
         last' = [kind |-> "total_fees",
                  args |-> [merchant |-> merchant, year |-> 2023,
                            month |-> period[1], day |-> period[2]],
                  out |-> solve_total_fees(Engine, merchant, 2023, period[1], period[2])]
    /\ Frame
    /\ UNCHANGED ruleVars

FeeDelta ==
    /\ last.kind = "idle"
    /\ \E merchant \in Merchants, fee_id \in DOMAIN fee_by_id \cup {UnknownFeeId},
          new_rate \in {1} :
         /\ last' = [kind |-> "fee_delta",
                     args |-> [merchant |-> merchant, year |-> 2023, month |-> {},
                               fee_id |-> fee_id, new_rate |-> new_rate],
                     out |-> solve_fee_delta(Engine, merchant, 2023, {}, fee_id, new_rate),
                     driver |-> run_evaluation(
                         solve_fee_delta(Engine, merchant, 2023, {}, fee_id, new_rate))]
         /\ fees' = FeesAfterDelta(Engine, fee_id, new_rate)
    /\ UNCHANGED <<fee_by_id, merchant_info, monthly_lookup, payments, loaded>>
    /\ UNCHANGED ruleVars

MerchantsAffected ==
    /\ last.kind = "idle"
    /\ \E fee_id \in DOMAIN fee_by_id :
         last' = [kind |-> "merchants_affected",
                  args |-> [fee_id |-> fee_id],
                  out |-> solve_merchants_affected(Engine, fee_id)]
    /\ Frame
    /\ UNCHANGED ruleVars

MerchantsAffectedChange ==
    /\ last.kind = "idle"
    /\ \E fee_id \in DOMAIN fee_by_id, new_acct_type \in {"R", "F"} :
         last' = [kind |-> "merchants_affected_change",
                  args |-> [fee_id |-> fee_id, new_acct_type |-> new_acct_type],
                  out |-> solve_merchants_affected_change(Engine, fee_id, new_acct_type)]
    /\ Frame
    /\ UNCHANGED ruleVars

SchemeSteering ==
    /\ last.kind = "idle"
    /\ \E merchant \in Merchants, minimize \in BOOLEAN :
         last' = [kind |-> "scheme_steering",
                  args |-> [merchant |-> merchant, month |-> {1}, minimize |-> minimize],
                  out |-> solve_scheme_steering(Engine, merchant, {1}, minimize)]
    /\ Frame
    /\ UNCHANGED ruleVars

AciIncentive ==
    /\ last.kind = "idle"
    /\ \E merchant \in Merchants :
         last' = [kind |-> "aci_incentive",
                  args |-> [merchant |-> merchant, month |-> {}, year |-> 2023],
                  out |-> solve_aci_incentive(Engine, merchant, {}, 2023)]
    /\ Frame
    /\ UNCHANGED ruleVars

FeeIdsByCriteria ==
    /\ last.kind = "idle"
    /\ \E acct_type \in {"R", "F"}, aci \in {"A", "C"} :
         last' = [kind |-> "fee_ids_by_criteria",
                  args |-> [acct_type |-> acct_type, aci |-> aci],
                  out |-> solve_fee_ids_by_criteria(Engine, acct_type, aci)]
    /\ Frame
    /\ UNCHANGED ruleVars

MostExpensiveMcc ==
    /\ last.kind = "idle"
    /\ \E amount \in {100} :
         last' = [kind |-> "most_expensive_mcc",
                  args |-> [amount |-> amount],
                  out |-> solve_most_expensive_mcc(Engine, amount)]
    /\ Frame
    /\ UNCHANGED ruleVars

MostExpensiveAci ==
    /\ last.kind = "idle"
    /\ \E scheme \in Range(SchemeOrder), amount \in {100} :
         last' = [kind |-> "most_expensive_aci",
                  args |-> [scheme |-> scheme, amount |-> amount],
                  out |-> solve_most_expensive_aci(Engine, scheme, amount)]
    /\ Frame
    /\ UNCHANGED ruleVars

CheapestScheme ==
    /\ last.kind = "idle"
    /\ \E amount \in {100} :
         last' = [kind |-> "cheapest_scheme",
                  args |-> [amount |-> amount],
                  out |-> solve_cheapest_scheme(Engine, amount)]
    /\ Frame
    /\ UNCHANGED ruleVars

MostExpensiveScheme ==
    /\ last.kind = "idle"
    /\ \E amount \in {100} :
         last' = [kind |-> "most_expensive_scheme",
                  args |-> [amount |-> amount],
                  out |-> solve_most_expensive_scheme(Engine, amount)]
    /\ Frame
    /\ UNCHANGED ruleVars

DevTask1871 ==
    /\ last.kind = "idle"
    /\ last' = [kind |-> "task_1871", args |-> <<>>, out |-> answer_task_1871(Engine),
                driver |-> run_evaluation(answer_task_1871(Engine))]
    /\ Frame
    /\ UNCHANGED ruleVars

DevTask2697 ==
    /\ last.kind = "idle"
    /\ last' = [kind |-> "task_2697", args |-> <<>>, out |-> answer_task_2697(Engine)]
    /\ payments' = PaymentsAfterAciOverlay(Engine)
    /\ UNCHANGED <<fees, fee_by_id, merchant_info, monthly_lookup, loaded>>
    /\ UNCHANGED ruleVars

\* The caller takes the answer and moves to the next question.
NextQuestion ==
    /\ last.kind # "idle"
    /\ last' = Idle
    /\ Frame
    /\ UNCHANGED ruleVars

Next ==
    \/ ApplicableFeeIds
    \/ TotalFees
    \/ FeeDelta
    \/ MerchantsAffected
    \/ MerchantsAffectedChange
    \/ SchemeSteering
    \/ AciIncentive
    \/ FeeIdsByCriteria
    \/ MostExpensiveMcc
    \/ MostExpensiveAci
    \/ CheapestScheme
    \/ MostExpensiveScheme
    \/ DevTask1871
    \/ DevTask2697
    \/ NextQuestion

Spec == Init /\ [][Next]_vars

----------------------------------------------------------------------------
(* The resolvers on their own: select_applied_rules and get_applied_fee    *)
(* called with any sub-list of the rule list.                              *)

InitResolve ==
    /\ fees \in SubSeqs(MasterFees)
    /\ fee_by_id = BuildFeeById(fees)
    /\ merchant_info = MerchantTable
    /\ monthly_lookup = MonthlyTable
    /\ payments = <<>>
    /\ loaded = Engine
    /\ last = Idle
    /\ NoRule

SelectApplied ==
    /\ last.kind = "idle"
    /\ \E matching \in SubSeqs(fees) :
         last' = [kind |-> "select_applied",
                  args |-> [matching |-> matching],
                  out |-> [result |-> select_applied_rules(matching)]]
    /\ Frame
    /\ UNCHANGED ruleVars

GetAppliedFee ==
    /\ last.kind = "idle"
    /\ \E matching \in SubSeqs(fees), amt \in {100, 200} :
         last' = [kind |-> "get_applied_fee",
                  args |-> [matching |-> matching, amt |-> amt],
                  out |-> get_applied_fee(matching, amt)]
    /\ Frame
    /\ UNCHANGED ruleVars

NextResolve == SelectApplied \/ GetAppliedFee \/ NextQuestion

SpecResolve == InitResolve /\ [][NextResolve]_vars

----------------------------------------------------------------------------
(* Derived columns: the capture-delay bucket of a merchant and the month   *)
(* of a day of the year, by each routine that derives them.                *)

\* The raw capture_delay values of merchant_data.json.
RawDelays == {"immediate", "1", "2", "3", "4", "5", "6", "7", "manual"}

\* str.isdigit() and int() on a raw value.
IsDigit(delay) == delay \in {"1", "2", "3", "4", "5", "6", "7"}

IntOf(delay) ==
    CASE delay = "1" -> 1 [] delay = "2" -> 2 [] delay = "3" -> 3 [] delay = "4" -> 4
      [] delay = "5" -> 5 [] delay = "6" -> 6 [] delay = "7" -> 7

\* tools/convertJSONtoCSV.build_merchants_df: capture_delay_bucket of a row.
build_merchants_df(capture_delay) ==
    LET delay == capture_delay
    IN  IF delay = "immediate" THEN "immediate"
        ELSE IF delay \in {"1", "2"} THEN "<3"
        ELSE IF delay \in {"3", "4", "5"} THEN "3-5"
        ELSE IF delay = "manual" THEN "manual"
        ELSE IF IsDigit(delay) /\ IntOf(delay) > 5 THEN ">5"
        ELSE ""

\* dev_answerer.get_capture_bucket for a merchant whose raw capture_delay
\* is given: CD_MAP[...] raises KeyError for a value that is no key.
CaptureBucketOf(capture_delay) ==
    LET e == [merchant_info |->
                [m \in {"Belles_cookbook_store"} |-> [capture_delay |-> capture_delay]]]
    IN  IF capture_delay \in DOMAIN CD_MAP
        THEN [status |-> "ok", bucket |-> get_capture_bucket(e, "Belles_cookbook_store")]
        ELSE [status |-> "KeyError", bucket |-> ""]

\* The last day of the year the month table covers.
DaysInYear == 365

_MONTH_ENDS == <<31, 59, 90, 120, 151, 181, 212, 243, 273, 304, 334, 365>>

\* build_datasource.day_of_year_to_month: the first month whose end is not
\* before the day, 12 when there is none.
day_of_year_to_month(doy) ==
    IF \E i \in DOMAIN _MONTH_ENDS : doy <= _MONTH_ENDS[i]
    THEN CHOOSE i \in DOMAIN _MONTH_ENDS :
           /\ doy <= _MONTH_ENDS[i]
           /\ \A j \in 1..(i - 1) : doy > _MONTH_ENDS[j]
    ELSE 12

\* dev_answerer.day_to_month: datetime.date(2023, 1, 1) + timedelta(day - 1)
dev_day_to_month(day) == MonthFrom(1, day)

InitDerive ==
    /\ last \in { [kind |-> "input",
                    args |-> [capture_delay |-> c, day_of_year |-> d]] :
                   c \in RawDelays, d \in 1..DaysInYear }
    /\ fees = <<>>
    /\ fee_by_id = <<>>
    /\ merchant_info = <<>>
    /\ monthly_lookup = <<>>
    /\ payments = <<>>
    /\ loaded = <<>>
    /\ NoRule

BucketDelay ==
    /\ last.kind = "input"
    /\ last' = [kind |-> "bucket", args |-> last.args,
                out |-> [tools |-> build_merchants_df(last.args.capture_delay),
                         dev |-> CaptureBucketOf(last.args.capture_delay)]]
    /\ Frame
    /\ UNCHANGED ruleVars

DeriveMonth ==
    /\ last.kind = "input"
    /\ last' = [kind |-> "month", args |-> last.args,
                out |-> [builder |-> day_of_year_to_month(last.args.day_of_year),
                         offline |-> day_to_month(last.args.day_of_year),
                         dev |-> dev_day_to_month(last.args.day_of_year)]]
    /\ Frame
    /\ UNCHANGED ruleVars

NextDerive == BucketDelay \/ DeriveMonth

SpecDerive == InitDerive /\ [][NextDerive]_vars

----------------------------------------------------------------------------
(* A merchant without a profile: the merchant table lacks                  *)
(* Belles_cookbook_store while payments.csv still has its transactions.    *)

OrphanTable == [m \in {"Crossfit_Hanna"} |-> MerchantTable[m]]

InitOrphan ==
    /\ fees \in SubSeqs(MasterFees)
    /\ fee_by_id = BuildFeeById(fees)
    /\ merchant_info = OrphanTable
    /\ monthly_lookup = MonthlyTable
    /\ payments \in { [i \in DOMAIN rows |-> PreprocessRow(rows[i])] :
                        rows \in RowLists(TxnPool, MaxTxns) }
    /\ loaded = Engine
    /\ last = Idle
    /\ NoRule

NextOrphan ==
    \/ ApplicableFeeIds
    \/ TotalFees
    \/ DevTask1871
    \/ DevTask2697
    \/ NextQuestion

SpecOrphan == InitOrphan /\ [][NextOrphan]_vars

----------------------------------------------------------------------------
(* Total fees on reordered inputs: the engine is loaded again from a       *)
(* fees.json or a payments.csv that holds the same entries in another      *)
(* order, and the same total-fee question is asked of both engines.        *)

\* The list q with its entries in the order p (a permutation of DOMAIN q).
Reordered(q, p) == [i \in DOMAIN q |-> q[p[i]]]

Identity(q) == [i \in DOMAIN q |-> i]

\* The engine constructed from the rule list fs and the payments rows.
Loaded(fs, rows) ==
    [fees |-> fs, fee_by_id |-> BuildFeeById(fs), merchant_info |-> merchant_info,
     monthly_lookup |-> monthly_lookup, payments |-> rows]

TotalFeesRulesReordered ==
    /\ last.kind = "idle"
    /\ \E merchant \in Merchants, period \in {<<{1}, {}>>, <<{}, {10}>>},
          p \in Permutations(DOMAIN fees) :
         last' = [kind |-> "total_fees_rules_reordered",
                  args |-> [merchant |-> merchant, year |-> 2023,
                            month |-> period[1], day |-> period[2],
                            moved |-> p # Identity(fees)],
                  out |-> [original |-> solve_total_fees(Engine, merchant, 2023,
                                                         period[1], period[2]),
                           reordered |-> solve_total_fees(
                                             Loaded(Reordered(fees, p), payments),
                                             merchant, 2023, period[1], period[2])]]
    /\ Frame
    /\ UNCHANGED ruleVars

TotalFeesTxnsReordered ==
    /\ last.kind = "idle"
    /\ \E merchant \in Merchants, period \in {<<{1}, {}>>, <<{}, {10}>>},
          p \in Permutations(DOMAIN payments) :
         last' = [kind |-> "total_fees_txns_reordered",
                  args |-> [merchant |-> merchant, year |-> 2023,
                            month |-> period[1], day |-> period[2],
                            moved |-> p # Identity(payments)],
                  out |-> [original |-> solve_total_fees(Engine, merchant, 2023,
                                                         period[1], period[2]),
                           reordered |-> solve_total_fees(
                                             Loaded(fees, Reordered(payments, p)),
                                             merchant, 2023, period[1], period[2])]]
    /\ Frame
    /\ UNCHANGED ruleVars

NextReorder == TotalFeesRulesReordered \/ TotalFeesTxnsReordered \/ NextQuestion

SpecReorder == Init /\ [][NextReorder]_vars

----------------------------------------------------------------------------
(* Rule evaluation: one fee rule, drawn from RuleSpace, is run through the *)
(* matchers over every context of Contexts and through the specificity     *)
(* functions.                                                              *)

Schemes == {"GlobalCard", "NexPay"}

RuleSpace ==
    [ID : {1},
     card_scheme : {"GlobalCard"},
     account_type : {NoneList, List({}), List({"H", "D"})},
     capture_delay : {None, "<3"},
     monthly_fraud_level : {None, "<7.2%"},
     monthly_volume : {None, "<100k"},
     merchant_category_code : {NoneList, List({}), List({5942, 5812})},
     is_credit : {None, "True", "False"},
     aci : {NoneList, List({}), List({"A", "C"})},
     intracountry : {None, "0.0", "1.0"},
     fixed_amount : {10},
     rate : {50}]

\* A transaction row joined with its merchant's profile and monthly tiers.
Contexts ==
    [card_scheme : Schemes,
     aci : {"A", "B"},
     is_credit : {"True", "False"},
     issuing_country : {"NL", "BE"},
     acquirer_country : {"NL"},
     account_type : {"H", "R"},
     merchant_category_code : {5942, 7997},
     capture_delay_bucket : {"<3", "manual"},
     vol_tier : {"<100k", "100k-1m"},
     fraud_tier : {"<7.2%", "7.2%-7.7%"}]

\* preprocess: payments['intracountry'] = (issuing == acquirer).astype(int)
Intracountry(txn) == IF txn.issuing_country = txn.acquirer_country THEN 1 ELSE 0

\* The keyword arguments every caller of fee_matches builds for a context.
MatchArgs(c) ==
    [card_scheme          |-> c.card_scheme,
     account_type         |-> c.account_type,
     capture_delay_bucket |-> c.capture_delay_bucket,
     monthly_fraud_level  |-> c.fraud_tier,
     monthly_volume       |-> c.vol_tier,
     mcc                  |-> c.merchant_category_code,
     is_credit            |-> c.is_credit,
     aci                  |-> c.aci,
     intracountry         |-> Intracountry(c)]

\* A rule with every criterion concrete, so a fees.json holding it has a
\* numeric intracountry column.
CompanionRule ==
    [ID |-> 2, card_scheme |-> "NexPay", account_type |-> List({"R"}),
     capture_delay |-> "manual", monthly_fraud_level |-> "<7.2%",
     monthly_volume |-> "<100k", merchant_category_code |-> List({7997}),
     is_credit |-> "True", aci |-> List({"B"}), intracountry |-> "1.0",
     fixed_amount |-> 10, rate |-> 50]

UnsetMatched ==
    [done |-> FALSE, offline |-> {}, dev |-> {}, offline_miss |-> {}, dev_miss |-> {},
     offline_no_scheme |-> {}, dev_no_scheme |-> {}]

\* A (merchant, year, month) key without a row in the monthly statistics.
MissingKey == <<"Crossfit_Hanna", 2023, 7>>

\* The arguments the offline engine builds for context c when the monthly
\* lookup of its transaction misses.
MatchArgsOnMiss(c) ==
    LET stats == MonthlyGet(MonthlyTable, MissingKey)
    IN  [MatchArgs(c) EXCEPT !.monthly_fraud_level = stats.fraud_tier,
                             !.monthly_volume = stats.volume_tier]

\* The tiers the dev answerer reads when its monthly lookup misses.
TiersOnMiss ==
    get_monthly_tiers([monthly_lookup |-> MonthlyTable],
                      MissingKey[1], MissingKey[2], MissingKey[3])

UnsetScores == [done |-> FALSE, offline |-> 0, dev |-> 0, row |-> 0, flat |-> {}]

NoEngine ==
    /\ fees = <<>>
    /\ fee_by_id = <<>>
    /\ merchant_info = <<>>
    /\ monthly_lookup = <<>>
    /\ payments = <<>>
    /\ loaded = <<>>
    /\ last = Idle

InitRule ==
    /\ rule \in RuleSpace
    /\ matched = UnsetMatched
    /\ scores = UnsetScores
    /\ NoEngine

\* Both matchers on the rule, over every context; offline_miss and dev_miss
\* hold the contexts accepted when the monthly lookup misses,
\* offline_no_scheme and dev_no_scheme those accepted when the call leaves
\* the card scheme at None (the default of fee_matches' card_scheme).
MatchAll ==
    /\ ~matched.done
    /\ matched' = [done    |-> TRUE,
                   offline |-> { c \in Contexts : fee_matches(rule, MatchArgs(c)) },
                   dev     |-> { c \in Contexts :
                                   fee_matches_txn(rule, c, c, c.capture_delay_bucket,
                                                   c.vol_tier, c.fraud_tier) },
                   offline_miss |-> { c \in Contexts :
                                        fee_matches(rule, MatchArgsOnMiss(c)) },
                   dev_miss |-> { c \in Contexts :
                                    fee_matches_txn(rule, c, c, c.capture_delay_bucket,
                                                    TiersOnMiss[1], TiersOnMiss[2]) },
                   offline_no_scheme |-> { c \in Contexts :
                        fee_matches(rule, [MatchArgs(c) EXCEPT !.card_scheme = None]) },
                   dev_no_scheme |-> { c \in Contexts :
                        fee_matches_txn(rule, [c EXCEPT !.card_scheme = None], c,
                                        c.capture_delay_bucket, c.vol_tier, c.fraud_tier) }]
    /\ UNCHANGED <<rule, scores>>
    /\ UNCHANGED engineVars

\* The four specificity functions on the matched rule; the datasource builder
\* reads it from a fees.json that holds the rule alone or with CompanionRule.
Score ==
    /\ matched.done
    /\ ~scores.done
    /\ \E fs \in {<<rule>>, <<rule, CompanionRule>>} :
         scores' = [done    |-> TRUE,
                    offline |-> fee_specificity(rule),
                    dev     |-> specificity(rule),
                    row     |-> _specificity_score_row(RowNoExplode(fs, 1)),
                    flat    |-> { _specificity_score_flat(r) : r \in RowsExploded(fs, 1) }]
    /\ UNCHANGED <<rule, matched>>
    /\ UNCHANGED engineVars

NextRule == MatchAll \/ Score

SpecRule == InitRule /\ [][NextRule]_vars

----------------------------------------------------------------------------
(* What the specification says of a rule and a context.                    *)

\* A set-valued criterion is a wildcard when it is None or empty.
ListWildcard(l) == l.none \/ l.items = {}

\* The number of concrete criteria among the eight optional ones.
ConcreteCount(r) ==
    Cardinality({ f \in {"account_type", "merchant_category_code", "aci"} :
                    ~ListWildcard(r[f]) })
    + Cardinality({ f \in {"is_credit", "intracountry", "capture_delay",
                           "monthly_volume", "monthly_fraud_level"} : r[f] # None })

\* Section 4.1: the conjunction over all criteria, for a context c in the
\* shape of Contexts (a tier of an absent monthly row is None).
MatchExpected(r, c) ==
    /\ r.card_scheme = c.card_scheme
    /\ ListWildcard(r.account_type) \/ c.account_type \in r.account_type.items
    /\ ListWildcard(r.merchant_category_code)
         \/ c.merchant_category_code \in r.merchant_category_code.items
    /\ ListWildcard(r.aci) \/ c.aci \in r.aci.items
    /\ r.is_credit = None \/ r.is_credit = c.is_credit
    /\ r.intracountry = None
         \/ (r.intracountry = "1.0") = (c.issuing_country = c.acquirer_country)
    /\ r.capture_delay = None \/ r.capture_delay = c.capture_delay_bucket
    /\ r.monthly_volume = None \/ (c.vol_tier # None /\ r.monthly_volume = c.vol_tier)
    /\ r.monthly_fraud_level = None
         \/ (c.fraud_tier # None /\ r.monthly_fraud_level = c.fraud_tier)

\* C1: for every rule and every context with all values present, each
\* matcher (fee_matches, fee_matches_txn) accepts the context iff the card
\* schemes are equal and every other criterion is a wildcard or is equal to
\* / contains the context's value.
C1_MatcherIsConjunction ==
    matched.done =>
        /\ matched.offline = { c \in Contexts : MatchExpected(rule, c) }
        /\ matched.dev = { c \in Contexts : MatchExpected(rule, c) }

\* A rule with concrete criteria of every kind accepts some context and
\* rejects the context that differs from it in the merchant category only.
C1_Witness ==
    /\ matched.done
    /\ ~ListWildcard(rule.merchant_category_code)
    /\ rule.is_credit = "False"
    /\ rule.intracountry = "0.0"
    /\ rule.monthly_volume # None
    /\ \E c \in matched.offline :
         /\ c \in matched.dev
         /\ [c EXCEPT !.merchant_category_code = 7997] \notin matched.offline
         /\ [c EXCEPT !.merchant_category_code = 7997] \notin matched.dev

\* C4 (as claimed): every specificity function scores a rule 1 for its card
\* scheme plus 1 for each concrete optional criterion, so within 1..9.
C4_ScoreCountsSchemeAndConcrete ==
    scores.done =>
        /\ scores.offline = 1 + ConcreteCount(rule)
        /\ scores.dev = 1 + ConcreteCount(rule)
        /\ scores.row = 1 + ConcreteCount(rule)
        /\ scores.flat = {1 + ConcreteCount(rule)}

----------------------------------------------------------------------------
(* What the specification says of the resolver, the pricing and the        *)
(* queries, stated over rule sets and contexts.                            *)

\* The context of a transaction row: its own columns, its merchant's
\* attributes and the tiers of its merchant, year and month.
JoinContext(e, txn) ==
    LET mi == e.merchant_info[txn.merchant]
        key == <<txn.merchant, txn.year, txn.month>>
    IN  [card_scheme            |-> txn.card_scheme,
         aci                    |-> txn.aci,
         is_credit              |-> txn.is_credit,
         issuing_country        |-> txn.issuing_country,
         acquirer_country       |-> txn.acquirer_country,
         account_type           |-> mi.account_type,
         merchant_category_code |-> mi.merchant_category_code,
         capture_delay_bucket   |-> mi.capture_delay_bucket,
         vol_tier   |-> IF key \in DOMAIN e.monthly_lookup
                        THEN e.monthly_lookup[key].volume_tier ELSE None,
         fraud_tier |-> IF key \in DOMAIN e.monthly_lookup
                        THEN e.monthly_lookup[key].fraud_tier ELSE None]

\* The positions in the rule list fs of the rules that match context c.
ExpectedMatching(fs, c) == { i \in DOMAIN fs : MatchExpected(fs[i], c) }

\* Of a set of positions, those whose rule has the most concrete criteria.
MostSpecific(fs, M) ==
    { i \in M : \A j \in M : ConcreteCount(fs[j]) <= ConcreteCount(fs[i]) }

ExpectedApplied(fs, c) == MostSpecific(fs, ExpectedMatching(fs, c))

\* fixed_amount + rate * amount / 10000, in units of 1/10000 EUR.
Price(r, amount) == r.fixed_amount * 100 + r.rate * amount

\* The realized fee of a context, in units of 1/(10000 * MeanScale) EUR.
ExpectedFee(fs, c, amount) ==
    LET A == ExpectedApplied(fs, c)
    IN  IF A = {} THEN 0
        ELSE (MeanScale * SumSeq([i \in DOMAIN fs |->
                                    IF i \in A THEN Price(fs[i], amount) ELSE 0]))
             \div Cardinality(A)

RuleIds(fs, I) == { fs[i].ID : i \in I }

Pos(order, x) == CHOOSE i \in DOMAIN order : order[i] = x

\* C2: from a non-empty list of matching rules every resolver
\* (select_applied_rules, get_applied_fee) keeps exactly the rules whose
\* specificity is the maximum over the list: every tied rule, and no rule
\* that is less specific than another rule of the list.
C2_ResolverKeepsMaxima ==
    /\ last.kind = "select_applied" =>
         LET matching == last.args.matching
         IN  /\ Range(last.out.result)
                  = { matching[i] : i \in MostSpecific(matching, DOMAIN matching) }
             /\ Len(last.out.result) = Cardinality(Range(last.out.result))
    /\ last.kind = "get_applied_fee" =>
         LET matching == last.args.matching
         IN  /\ Range(last.out.applied)
                  = RuleIds(matching, MostSpecific(matching, DOMAIN matching))
             /\ Len(last.out.applied) = Cardinality(Range(last.out.applied))

\* Two tied rules are kept and a less specific rule of the list is dropped.
C2_Witness ==
    /\ last.kind = "select_applied"
    /\ Len(last.out.result) = 2
    /\ Len(last.args.matching) >= 4
    /\ \E i \in DOMAIN last.args.matching :
         /\ last.args.matching[i] \notin Range(last.out.result)
         /\ fee_specificity(last.args.matching[i]) < fee_specificity(last.out.result[1])

C5_ApplicableIdsAreMatchingIds ==
    last.kind = "applicable_fee_ids" =>
        LET txns == last.out.txns
            ids == last.out.result
        IN  /\ Range(ids)
                 = UNION { RuleIds(loaded.fees,
                                   ExpectedMatching(loaded.fees, JoinContext(loaded, txns[j]))) :
                           j \in DOMAIN txns }
            /\ \A i, j \in DOMAIN ids : i < j => ids[i] < ids[j]
            /\ \A j \in DOMAIN txns :
                 RuleIds(loaded.fees,
                         ExpectedApplied(loaded.fees, JoinContext(loaded, txns[j])))
                   \subseteq Range(ids)

\* The answer names a rule that matches a transaction without being one of
\* the rules applied to it.
C5_Witness ==
    /\ last.kind = "applicable_fee_ids"
    /\ \E j \in DOMAIN last.out.txns : \E i \in DOMAIN loaded.fees :
         /\ loaded.fees[i].ID \in Range(last.out.result)
         /\ i \in ExpectedMatching(loaded.fees, JoinContext(loaded, last.out.txns[j]))
         /\ \A t \in DOMAIN last.out.txns :
              i \notin ExpectedApplied(loaded.fees, JoinContext(loaded, last.out.txns[t]))

\* The rule list with the rate of the rule fee_id replaced.
Substituted(fs, fee_id, new_rate) ==
    [i \in DOMAIN fs |-> IF fs[i].ID = fee_id THEN [fs[i] EXCEPT !.rate = new_rate] ELSE fs[i]]

C7_BestCandidateIsOptimum ==
    (last.kind \in {"scheme_steering", "aci_incentive", "task_2697"}
       /\ last.out.result.status = "ok") =>
        LET r == last.out.result
            txns == last.out.txns
            steer == last.kind = "scheme_steering"
            order == IF steer THEN SchemeOrder ELSE AciOrder
            minimize == IF steer THEN last.args.minimize ELSE TRUE
            overlay(c, x) == IF steer THEN [c EXCEPT !.card_scheme = x]
                             ELSE [c EXCEPT !.aci = x]
            Tot(x) == SumSeq([i \in DOMAIN txns |->
                         ExpectedFee(loaded.fees, overlay(JoinContext(loaded, txns[i]), x),
                                     txns[i].eur_amount)])
        IN  /\ r.best \in Range(r.candidates)
            /\ r.total = Tot(r.best)
            /\ \A x \in Range(r.candidates) :
                 /\ IF minimize THEN Tot(r.best) <= Tot(x) ELSE Tot(r.best) >= Tot(x)
                 /\ Tot(x) = Tot(r.best) => Pos(order, r.best) <= Pos(order, x)

\* Steering to the maximum with two schemes of the same positive total:
\* the alphabetically first one is returned.
C7_Witness ==
    /\ last.kind = "scheme_steering"
    /\ last.out.result.status = "ok"
    /\ ~last.args.minimize
    /\ Len(last.out.result.candidates) = 2
    /\ last.out.txns # <<>>
    /\ last.out.result.total > 0
    /\ SumSeq(FeesOf(last.out.result.steps[1])) = SumSeq(FeesOf(last.out.result.steps[2]))
    /\ last.out.result.best = "GlobalCard"

\* C8: solve_merchants_affected returns exactly the merchants with at
\* least one 2023 transaction that the rule matches, and a merchant that
\* the pre-check excludes has no transaction the rule matches.
C8_AffectedAreMatchedMerchants ==
    last.kind = "merchants_affected" =>
        LET fee == loaded.fees[loaded.fee_by_id[last.args.fee_id]]
            hit(m) == \E i \in DOMAIN loaded.payments :
                        /\ loaded.payments[i].merchant = m
                        /\ loaded.payments[i].year = 2023
                        /\ MatchExpected(fee, JoinContext(loaded, loaded.payments[i]))
        IN  /\ Range(last.out.result) = { m \in Merchants : hit(m) }
            /\ \A m \in Merchants : ~PreCheck(fee, loaded.merchant_info[m]) => ~hit(m)

\* A rule with a concrete capture delay affects one merchant and the
\* pre-check excludes the other.
C8_Witness ==
    /\ last.kind = "merchants_affected"
    /\ loaded.fees[loaded.fee_by_id[last.args.fee_id]].capture_delay # None
    /\ last.out.result = <<"Belles_cookbook_store">>
    /\ ~PreCheck(loaded.fees[loaded.fee_by_id[last.args.fee_id]],
                 loaded.merchant_info["Crossfit_Hanna"])

\* C9: solve_merchants_affected_change returns the merchants that
\* solve_merchants_affected returns for the rule, minus the merchants whose
\* account type already is the new account type.
C9_ChangeExcludesSameAccountType ==
    last.kind = "merchants_affected_change" =>
        Range(last.out.result)
          = Range(solve_merchants_affected(loaded, last.args.fee_id).result)
              \ { m \in Merchants :
                    loaded.merchant_info[m].account_type = last.args.new_acct_type }

\* An affected merchant is left out because it has the new account type,
\* while another affected merchant stays.
C9_Witness ==
    /\ last.kind = "merchants_affected_change"
    /\ Len(solve_merchants_affected(loaded, last.args.fee_id).result) = 2
    /\ Len(last.out.result) = 1

C11_MissingTiersFailConcreteTierRules ==
    matched.done =>
        /\ MonthlyGet(MonthlyTable, MissingKey) = [volume_tier |-> None, fraud_tier |-> None]
        /\ TiersOnMiss = <<None, None>>
        /\ IF rule.monthly_volume # None \/ rule.monthly_fraud_level # None
           THEN matched.offline_miss = {} /\ matched.dev_miss = {}
           ELSE /\ matched.offline_miss = matched.offline
                /\ matched.dev_miss = matched.dev

\* A rule with a concrete volume tier accepts a context whose tiers are
\* present and nothing on a lookup miss.
C11_Witness ==
    /\ matched.done
    /\ rule.monthly_volume # None
    /\ rule.monthly_fraud_level = None
    /\ matched.offline # {}
    /\ matched.dev # {}
    /\ matched.offline_miss = {}
    /\ matched.dev_miss = {}

\* C12 (as claimed): in every call of a matcher a rule whose card_scheme
\* differs from the scheme of the call is rejected; no call, not even one
\* that passes no card scheme, has the card_scheme criterion skipped.
C12_CardSchemeNeverSkipped ==
    matched.done =>
        /\ \A c \in matched.offline \cup matched.dev : c.card_scheme = rule.card_scheme
        /\ matched.offline_no_scheme = {}
        /\ matched.dev_no_scheme = {}

\* The rule list with every None of a set-valued criterion written as [].
NoneAsEmpty(fs) ==
    [i \in DOMAIN fs |->
        [fs[i] EXCEPT !.account_type = as_list(@),
                      !.merchant_category_code = as_list(@),
                      !.aci = as_list(@)]]

\* C13 (as claimed): a None and an empty list in account_type,
\* merchant_category_code or aci are the same wildcard: matching,
\* specificity-based pricing, fee-ID lookup by criteria and the
\* most-expensive-MCC and most-expensive-ACI selections give the result
\* they give on the rule list with every None written as [], and none of
\* them fails.
C13_NoneAndEmptyListAreOneWildcard ==
    LET e == [loaded EXCEPT !.fees = NoneAsEmpty(loaded.fees)]
    IN  /\ last.kind = "applicable_fee_ids" =>
             last.out = solve_applicable_fee_ids(e, last.args.merchant, last.args.year,
                                                 last.args.month, last.args.day)
        /\ last.kind = "total_fees" =>
             last.out = solve_total_fees(e, last.args.merchant, last.args.year,
                                         last.args.month, last.args.day)
        /\ last.kind = "fee_ids_by_criteria" =>
             last.out = solve_fee_ids_by_criteria(e, last.args.acct_type, last.args.aci)
        /\ last.kind = "most_expensive_aci" =>
             last.out = solve_most_expensive_aci(e, last.args.scheme, last.args.amount)
        /\ last.kind = "most_expensive_mcc" =>
             /\ last.out.status # "TypeError"
             /\ last.out = solve_most_expensive_mcc(e, last.args.amount)

C15_EmptyCandidatesRaise ==
    /\ (last.kind = "scheme_steering" /\ last.out.result.candidates = <<>>)
         => last.out.result.status = "error"
    /\ (last.kind \in {"cheapest_scheme", "most_expensive_scheme"}
          /\ last.out.candidates = {})
         => last.out.status = "ValueError"
    /\ (last.kind = "most_expensive_aci" /\ last.out.candidates = {})
         => last.out.status \in {"ValueError", "TypeError", "KeyError"}

\* C16 (as claimed): a fee-delta query that names a rule ID missing from
\* the rule list fails before a total is computed and yields no delta, and
\* the loop that drives the queries lets the error through instead of
\* turning it into an answer.
C16_UnknownRuleIdFailsFast ==
    /\ (last.kind = "fee_delta" /\ last.args.fee_id \notin DOMAIN loaded.fee_by_id) =>
          /\ last.out.status = "KeyError"
          /\ last.out.old = <<>> /\ last.out.new = <<>>
          /\ last.driver.state = "raised"
    /\ (last.kind = "task_1871" /\ \A i \in DOMAIN loaded.fees : loaded.fees[i].ID # 384) =>
          /\ last.out.status = "StopIteration"
          /\ last.driver.state = "raised"

\* C17 (as claimed): a transaction of a merchant without a profile is a
\* lookup miss and no exception: the query evaluates every transaction,
\* the transaction matches no rule, adds fee 0 and no rule ID.
C17_MissingProfileIsLookupMiss ==
    /\ (last.kind = "total_fees" /\ ~HasProfile(loaded, last.args.merchant)) =>
          /\ last.out.status = "ok"
          /\ Len(last.out.steps) = Len(last.out.txns)
          /\ last.out.result = 0
    /\ (last.kind = "applicable_fee_ids" /\ ~HasProfile(loaded, last.args.merchant)) =>
          /\ last.out.status = "ok"
          /\ last.out.result = <<>>
    /\ (last.kind = "task_2697" /\ ~HasProfile(loaded, "Belles_cookbook_store")) =>
          last.out.result.status = "ok"
    /\ (last.kind = "task_1871" /\ ~HasProfile(loaded, "Belles_cookbook_store")) =>
          last.out.status \in {"ok", "StopIteration"}

\* The bucket the specification gives a raw capture delay.
ExpectedBucket(delay) ==
    CASE delay = "immediate" -> "immediate"
      [] delay \in {"1", "2"} -> "<3"
      [] delay \in {"3", "4", "5"} -> "3-5"
      [] delay \in {"6", "7"} -> ">5"
      [] delay = "manual" -> "manual"

\* C18 (as claimed): for every raw capture delay in {immediate, 1..7,
\* manual} each bucketing routine (build_merchants_df, get_capture_bucket)
\* returns a bucket, and the same one: immediate, <3 for 1-2, 3-5 for 3-5,
\* >5 for 6 and 7, manual.
C18_BucketingRoutinesAgree ==
    last.kind = "bucket" =>
        /\ last.out.tools = ExpectedBucket(last.args.capture_delay)
        /\ last.out.dev.status = "ok"
        /\ last.out.dev.bucket = ExpectedBucket(last.args.capture_delay)

\* The month the non-leap cumulative boundaries give a day of the year.
ExpectedMonth(d) ==
    CASE d <= 31 -> 1 [] d > 31 /\ d <= 59 -> 2 [] d > 59 /\ d <= 90 -> 3
      [] d > 90 /\ d <= 120 -> 4 [] d > 120 /\ d <= 151 -> 5 [] d > 151 /\ d <= 181 -> 6
      [] d > 181 /\ d <= 212 -> 7 [] d > 212 /\ d <= 243 -> 8 [] d > 243 /\ d <= 273 -> 9
      [] d > 273 /\ d <= 304 -> 10 [] d > 304 /\ d <= 334 -> 11 [] d > 334 -> 12

\* C19: for every day_of_year in 1..365 the boundary table of the
\* datasource builder and the calendar arithmetic of the offline engine
\* and of the dev answerer return the month of the non-leap boundaries
\* 31, 59, 90, ..., 365, so the three routines agree.
C19_MonthRoutinesAgree ==
    last.kind = "month" =>
        /\ last.out.builder = ExpectedMonth(last.args.day_of_year)
        /\ last.out.offline = ExpectedMonth(last.args.day_of_year)
        /\ last.out.dev = ExpectedMonth(last.args.day_of_year)

\* Day 60 is in March for the three routines.
C19_Witness ==
    /\ last.kind = "month"
    /\ last.args.day_of_year = 60
    /\ last.out.builder = 3
    /\ last.out.offline = 3
    /\ last.out.dev = 3

\* ---------------------------------------------------------------------------
\* The live client: LiveDotClient.query and its retry loop.
\* ---------------------------------------------------------------------------

max_retries == 3

\* Status codes the service can answer with: success, the four transient
\* statuses, and two that are not retried.
StatusCodes == {200, 422, 429, 500, 502, 503, 504}

\* What one response carries as far as query reads it: the status, the
\* Retry-After header as _retry_after_seconds parses it (0 for absent or
\* unparsable), and the assistant text extracted from the body.
Responses ==
    { [status_code |-> c, retry_after |-> ra, assistant_text |-> t] :
        c \in StatusCodes, ra \in {0, 5}, t \in {"", "42"} }

\* Exceptions self._client.post can raise; only the first two are caught.
PostExceptions == {"ReadTimeout", "ConnectTimeout", "ConnectError"}

CaughtTimeouts == {"ReadTimeout", "ConnectTimeout"}

\* A widened status test, used to check the sensitivity of the retry property.
IsRetryableStatusAnyError(status_code) == status_code # 200

IsRetryableStatus(status_code) == status_code \in {429, 502, 503, 504}

Pow2(n) == IF n = 0 THEN 1 ELSE IF n = 1 THEN 2 ELSE 4

\* ra if ra is not None else 10 * 2 ** attempt (the random jitter is left out).
StatusBackoff(resp, attempt) ==
    IF resp.retry_after # 0 THEN resp.retry_after ELSE 10 * Pow2(attempt)

TimeoutBackoff(attempt) == 15 * Pow2(attempt)

Running == [kind |-> "running", type |-> "None", status_code |-> 0, text |-> ""]

Raised(type, status_code) ==
    [kind |-> "raise", type |-> type, status_code |-> status_code, text |-> ""]

\* The frame of query on entry: resp and last_exc are None (the empty
\* sequence), no POST has been sent.  posts records every POST with what
\* came back: the status code, or the exception raised.
QueryEntry ==
    [kind |-> "query", pc |-> "post", attempt |-> 0, resp |-> <<>>,
     last_exc |-> <<>>, backoff |-> 0, posts |-> <<>>, outcome |-> Running]

InitQuery ==
    /\ last = QueryEntry
    /\ fees = <<>>
    /\ fee_by_id = <<>>
    /\ merchant_info = <<>>
    /\ monthly_lookup = <<>>
    /\ payments = <<>>
    /\ loaded = <<>>
    /\ NoRule

Sent(status_code, exc) == [status_code |-> status_code, exc |-> exc]

\* self._client.post returns a response.
PostReturns ==
    /\ last.kind = "query"
    /\ last.pc = "post"
    /\ \E r \in Responses :
         LET sent == Append(last.posts, Sent(r.status_code, "None")) IN
         last' =
           IF r.status_code = 200
           THEN [last EXCEPT !.resp = <<r>>, !.posts = sent, !.pc = "after_loop"]
           ELSE IF IsRetryableStatus(r.status_code) /\ last.attempt < max_retries - 1
           THEN [last EXCEPT !.resp = <<r>>, !.posts = sent, !.pc = "sleep",
                             !.backoff = StatusBackoff(r, last.attempt)]
           ELSE [last EXCEPT !.resp = <<r>>, !.posts = sent, !.pc = "after_loop"]
    /\ Frame
    /\ UNCHANGED ruleVars

\* self._client.post raises: a timeout is caught and retried or re-raised,
\* anything else leaves query at once.
PostRaises ==
    /\ last.kind = "query"
    /\ last.pc = "post"
    /\ \E exc \in PostExceptions :
         LET sent == Append(last.posts, Sent(0, exc)) IN
         last' =
           IF exc \in CaughtTimeouts
           THEN IF last.attempt < max_retries - 1
                THEN [last EXCEPT !.last_exc = <<exc>>, !.posts = sent,
                                  !.pc = "sleep",
                                  !.backoff = TimeoutBackoff(last.attempt)]
                ELSE [last EXCEPT !.last_exc = <<exc>>, !.posts = sent,
                                  !.pc = "done", !.outcome = Raised(exc, 0)]
           ELSE [last EXCEPT !.posts = sent, !.pc = "done",
                             !.outcome = Raised(exc, 0)]
    /\ Frame
    /\ UNCHANGED ruleVars

\* time.sleep(backoff); continue: the next iteration of range(max_retries),
\* or the end of the loop when the range is used up.
SleepThenContinue ==
    /\ last.kind = "query"
    /\ last.pc = "sleep"
    /\ last' = [last EXCEPT !.attempt = last.attempt + 1,
                            !.pc = IF last.attempt + 1 < max_retries
                                   THEN "post" ELSE "after_loop"]
    /\ Frame
    /\ UNCHANGED ruleVars

\* The code after the loop.
AfterLoop ==
    /\ last.kind = "query"
    /\ last.pc = "after_loop"
    /\ last' =
         [last EXCEPT
            !.pc = "done",
            !.outcome =
              IF last.resp = <<>>
              THEN Raised("DotApiError", 0)
              ELSE IF last.resp[1].status_code # 200
              THEN Raised("DotHttpError", last.resp[1].status_code)
              ELSE IF last.resp[1].assistant_text = ""
              THEN Raised("DotEmptyResponseError", 0)
              ELSE [kind |-> "return", type |-> "DotResponse",
                    status_code |-> last.resp[1].status_code,
                    text |-> last.resp[1].assistant_text]]
    /\ Frame
    /\ UNCHANGED ruleVars

NextQuery == PostReturns \/ PostRaises \/ SleepThenContinue \/ AfterLoop

\* A call that has started keeps running: post, sleep and the code after the
\* loop all return control.
SpecQuery == InitQuery /\ [][NextQuery]_vars /\ WF_vars(NextQuery)

\* What the specification calls a transient failure of one POST.
TransientFailure(sent) ==
    \/ sent.exc \in {"ReadTimeout", "ConnectTimeout"}
    \/ sent.exc = "None" /\ sent.status_code \in {429, 502, 503, 504}

C20_RetryDiscipline ==
    LET n == Len(last.posts) IN
    /\ n <= 3
    /\ \A i \in 1..(n - 1) : TransientFailure(last.posts[i])
    /\ last.pc = "done" =>
         /\ n >= 1
         /\ last.outcome.kind \in {"return", "raise"}
         /\ last.outcome.kind = "return" => last.outcome.type = "DotResponse"
         /\ last.outcome.type # "DotApiError"
         /\ (last.posts[n].exc = "None" /\ last.posts[n].status_code # 200) =>
              last.outcome = Raised("DotHttpError", last.posts[n].status_code)
         /\ (last.posts[n].exc = "None" /\ last.posts[n].status_code = 200) =>
              last.outcome.type \in {"DotResponse", "DotEmptyResponseError"}
         /\ last.posts[n].exc # "None" =>
              last.outcome = Raised(last.posts[n].exc, 0)

\* C20: one call of LiveDotClient.query sends between 1 and 3 POSTs; a POST
\* is followed by another only when it came back 429/502/503/504 or timed out
\* (read or connect); any other non-200 status ends the call after that POST
\* with DotHttpError; a 200 ends it at once; and the call always ends, either
\* returning a DotResponse or raising, never through the "failed without
\* response" DotApiError.
C20_QueryRetriesOnlyTransientFailures ==
    /\ [](last.kind = "query" /\ C20_RetryDiscipline)
    /\ <>(last.pc = "done")

\* A 503, then a read timeout, then a 200 with text: three POSTs and a
\* DotResponse.
C20_Witness ==
    /\ last.kind = "query"
    /\ last.pc = "done"
    /\ Len(last.posts) = 3
    /\ last.posts[1] = Sent(503, "None")
    /\ last.posts[2] = Sent(0, "ReadTimeout")
    /\ last.posts[3] = Sent(200, "None")
    /\ last.outcome.kind = "return"
    /\ last.outcome.type = "DotResponse"

\* ---------------------------------------------------------------------------
\* The two fee deltas and the two scores.
\* ---------------------------------------------------------------------------

\* C24: the fee delta of the dev answerer (the sum, over the transactions the
\* edited rule matches, of (new_rate - old_rate) * eur_amount / 10000) equals
\* the new_total - old_total delta of the offline engine for the same
\* merchant, month, rule and rate, whatever the rules and the transactions,
\* also when the edited rule matches without being most specific or is tied
\* with other applied rules.
C24_DevDeltaEqualsEngineDelta ==
    (last.kind = "task_1871" /\ last.out.status = "ok") =>
        LET offline == solve_fee_delta(Engine, "Belles_cookbook_store", 2023, {1}, 384, 1)
        IN  /\ offline.status = "ok"
            /\ last.out.result = offline.result

\* C27: for every list of matching rules the rules applied under the offline
\* score (card_scheme not counted, 0..8) are the rules applied under the dev
\* score (card_scheme counted, 1..9), and the realized fee is the same.
C27_BothScoresApplyTheSameRules ==
    last.kind = "get_applied_fee" =>
        LET matching == last.args.matching
            offline == select_applied_rules(matching)
        IN  /\ \A i \in DOMAIN matching :
                 /\ fee_specificity(matching[i]) \in 0..8
                 /\ specificity(matching[i]) \in 1..9
            /\ last.out.applied = IdsOf(offline)
            /\ matching # <<>> =>
                 last.out.fee = Mean([i \in DOMAIN offline |->
                                        compute_fee(offline[i], last.args.amt)])

\* Three matching rules of two different scores: the two tied ones are
\* applied, the less specific one is not.
C27_Witness ==
    /\ last.kind = "get_applied_fee"
    /\ Len(last.args.matching) >= 3
    /\ Len(last.out.applied) = 2
    /\ \E i \in DOMAIN last.args.matching :
         /\ last.args.matching[i].ID \notin Range(last.out.applied)
         /\ fee_specificity(last.args.matching[i]) = 0
         /\ specificity(last.args.matching[i]) = 1

\* ---------------------------------------------------------------------------
\* The async runner's worker: _execute_question.
\* ---------------------------------------------------------------------------

RATE_LIMIT_RETRIES == 3

\* What one call of client.query can do: return a response (whose text holds
\* the right answer, a wrong one, or no FINAL_ANSWER line), raise DotHttpError
\* with some status, raise DotEmptyResponseError, or raise another exception
\* (text is then str(exc).lower(): one that mentions "timeout", one that does
\* not).
ClientOutcomes ==
    { [kind |-> "response", status_code |-> 200, text |-> t] :
        t \in {"right", "wrong", "no_answer"} }
    \cup { [kind |-> "DotHttpError", status_code |-> c, text |-> ""] :
             c \in {404, 422, 429, 500, 502, 503, 504} }
    \cup { [kind |-> "DotEmptyResponseError", status_code |-> 0, text |-> ""] }
    \cup { [kind |-> "Exception", status_code |-> 0, text |-> t] :
             t \in {"timeout", "refused"} }

\* f"{run_id}_{question_id}" for attempt 0, f"{chat_id}_r{attempt}" after it
\* (suffix 0 stands for no suffix).
ChatId(run_id, question_id, attempt) ==
    [run_id |-> run_id, question_id |-> question_id, suffix |-> attempt]

\* score_answer(parse_final_answer(raw_text), ground_truth).
score_answer(raw_text) ==
    IF raw_text = "right" THEN [score |-> 1, error_type |-> None]
    ELSE IF raw_text = "no_answer" THEN [score |-> 0, error_type |-> "format_missing"]
    ELSE [score |-> 0, error_type |-> "wrong_answer"]

\* A retry test that forgets the bound on the attempts, used to check the
\* sensitivity of the worker's contract.
ShouldRetryHttpAnyAttempt(status_code, attempt) ==
    status_code \in {429, 500, 502, 503}

ShouldRetryHttp(status_code, attempt) ==
    status_code \in {429, 500, 502, 503} /\ attempt < RATE_LIMIT_RETRIES - 1

\* The worker on entry: qs as constructed (dot_status 0 stands for None) and
\* no call made.
ExecuteEntry(run_id, question_id) ==
    [kind |-> "execute", pc |-> "attempt", attempt |-> 0, calls |-> <<>>,
     qs |-> [question_id |-> question_id,
             request_id |-> ChatId(run_id, question_id, 0),
             status |-> "running", raw_text |-> "", score |-> 0,
             error_type |-> None, dot_status |-> 0]]

InitWorker ==
    /\ last \in { ExecuteEntry("run", q) : q \in {"1", "2"} }
    /\ fees = <<>>
    /\ fee_by_id = <<>>
    /\ merchant_info = <<>>
    /\ monthly_lookup = <<>>
    /\ payments = <<>>
    /\ loaded = <<>>
    /\ NoRule

\* elapsed > PER_QUESTION_TIMEOUT_S at the top of an iteration: the clock is
\* free, except that no time has passed before the first attempt.
PerQuestionTimeout ==
    /\ last.kind = "execute"
    /\ last.pc = "attempt"
    /\ last.attempt >= 1
    /\ last' = [last EXCEPT !.pc = "after_loop",
                            !.qs = [@ EXCEPT !.error_type = "dot_timeout",
                                             !.status = "timeout"]]
    /\ Frame
    /\ UNCHANGED ruleVars

\* The try block of one iteration: client.query and its handlers.
CallClient ==
    /\ last.kind = "execute"
    /\ last.pc = "attempt"
    /\ \E o \in ClientOutcomes :
         LET retry_chat_id == ChatId(last.qs.request_id.run_id,
                                     last.qs.question_id, last.attempt)
             called == [last EXCEPT !.calls =
                          Append(@, [chat_id |-> retry_chat_id, outcome |-> o])]
         IN  last' =
               IF o.kind = "response"
               THEN [called EXCEPT !.pc = "after_loop",
                                   !.qs = [@ EXCEPT !.raw_text = o.text,
                                                    !.dot_status = 200,
                                                    !.status = "completed"]]
               ELSE IF o.kind = "DotHttpError"
               THEN IF ShouldRetryHttp(o.status_code, last.attempt)
                    THEN [called EXCEPT !.pc = "sleep",
                                        !.qs = [@ EXCEPT !.dot_status = o.status_code]]
                    ELSE [called EXCEPT !.pc = "after_loop",
                                        !.qs = [@ EXCEPT !.dot_status = o.status_code,
                                                         !.error_type = "dot_http_error",
                                                         !.status = "error"]]
               ELSE IF o.kind = "DotEmptyResponseError"
               THEN [called EXCEPT !.pc = "after_loop",
                                   !.qs = [@ EXCEPT !.dot_status = 200,
                                                    !.error_type = "dot_empty_response",
                                                    !.status = "error"]]
               ELSE IF last.attempt < RATE_LIMIT_RETRIES - 1 /\ o.text = "timeout"
               THEN [called EXCEPT !.pc = "sleep"]
               ELSE [called EXCEPT !.pc = "after_loop",
                                   !.qs = [@ EXCEPT !.error_type = "client_error",
                                                    !.status = "error"]]
    /\ Frame
    /\ UNCHANGED ruleVars

\* time.sleep(backoff); continue.
BackoffThenContinue ==
    /\ last.kind = "execute"
    /\ last.pc = "sleep"
    /\ last' = [last EXCEPT !.attempt = @ + 1,
                            !.pc = IF last.attempt + 1 < RATE_LIMIT_RETRIES
                                   THEN "attempt" ELSE "after_loop"]
    /\ Frame
    /\ UNCHANGED ruleVars

\* The code after the loop: parse and score a completed question, return qs.
ScoreAndReturn ==
    /\ last.kind = "execute"
    /\ last.pc = "after_loop"
    /\ last' = [last EXCEPT
                  !.pc = "done",
                  !.qs = IF last.qs.status = "completed"
                         THEN [@ EXCEPT !.score = score_answer(last.qs.raw_text).score,
                                        !.error_type =
                                            score_answer(last.qs.raw_text).error_type]
                         ELSE @]
    /\ Frame
    /\ UNCHANGED ruleVars

NextWorker == PerQuestionTimeout \/ CallClient \/ BackoffThenContinue \/ ScoreAndReturn

SpecWorker == InitWorker /\ [][NextWorker]_vars

\* C21: every request sent for one question, through the runner's retries
\* too, carries the same chat_id, and that chat_id is the request_id recorded
\* in the question's status.
C21_ChatIdStableAcrossRetries ==
    last.kind = "execute" =>
        \A i \in DOMAIN last.calls : last.calls[i].chat_id = last.qs.request_id

\* The statuses the specification calls retryable: 429 and every 5xx.
RateLimitOr5xx(status_code) == status_code = 429 \/ status_code \in 500..599

\* C26: _execute_question queries again, up to 3 attempts in total, whenever
\* the client raised DotHttpError with status 429 or any 5xx status, and it
\* reports error / dot_http_error only when the last attempt failed or the
\* status is not retryable.
C26_RetriesRateLimitAndEvery5xx ==
    (last.kind = "execute" /\ last.pc = "done") =>
        LET n == Len(last.calls) IN
        /\ \A i \in 1..n :
             ( /\ last.calls[i].outcome.kind = "DotHttpError"
               /\ RateLimitOr5xx(last.calls[i].outcome.status_code)
               /\ i < 3 )
             => (n > i \/ last.qs.status = "timeout")
        /\ last.qs.error_type = "dot_http_error" =>
             /\ last.calls[n].outcome.kind = "DotHttpError"
             /\ n = 3 \/ ~RateLimitOr5xx(last.calls[n].outcome.status_code)

\* C28: whatever the client does, _execute_question calls client.query at
\* most 3 times and returns a status that is completed, error or timeout; the
\* score is 1 only if the status is completed, and a completed status has
\* dot_status 200.
C28_WorkerAlwaysReturnsFinalStatus ==
    last.kind = "execute" =>
        /\ Len(last.calls) <= 3
        /\ last.qs.score = 1 => last.qs.status = "completed"
        /\ last.qs.status = "completed" => last.qs.dot_status = 200
        /\ last.pc = "done" =>
             /\ last.qs.status \in {"completed", "error", "timeout"}
             /\ last.qs.score \in {0, 1}

\* A 503, then an exception that mentions a timeout, then the right answer:
\* three calls, completed, score 1.
C28_Witness ==
    /\ last.kind = "execute"
    /\ last.pc = "done"
    /\ Len(last.calls) = 3
    /\ last.calls[1].outcome.status_code = 503
    /\ last.calls[2].outcome.kind = "Exception"
    /\ last.qs.status = "completed"
    /\ last.qs.score = 1
    /\ last.qs.dot_status = 200

\* ---------------------------------------------------------------------------
\* The async runner's polling loop: submit_questions_async and poll_results,
\* running beside the worker threads of the pool.
\* ---------------------------------------------------------------------------

\* The QuestionStatus a worker can return for a question (see
\* _execute_question above): completed, an error, or its own timeout.
WorkerResults(qid) ==
    { [question_id |-> qid, request_id |-> ChatId("run", qid, 0),
       status |-> r[1], error_type |-> r[2]] :
        r \in { <<"completed", None>>, <<"completed", "wrong_answer">>,
                <<"error", "dot_http_error">>, <<"timeout", "dot_timeout">> } }

\* The dataclass defaults: what a QuestionStatus holds when nothing was set.
DefaultStatus(qid) ==
    [question_id |-> qid, request_id |-> ChatId("", "", 0),
     status |-> "pending", error_type |-> None]

\* A future of the pool: running, or done with a returned value or with an
\* exception.
RunningFuture(qid) == [state |-> "running", value |-> DefaultStatus(qid)]

\* A collection of a done future that takes its value whether or not it
\* raised, used to check the sensitivity of the polling contract.
CollectValueOnly(qid, future) == future.value

\* future.result(timeout=0) under try/except: the returned status, or the
\* status built in the except branch.
Collect(qid, future) ==
    IF future.state = "returned" THEN future.value
    ELSE [question_id |-> qid, request_id |-> ChatId("", "", 0),
          status |-> "error", error_type |-> "client_error"]

\* The entry written for a question pending at the wall-clock limit;
\* request_id is f"timeout_{qid}".
TimeoutEntry(qid) ==
    [question_id |-> qid, request_id |-> ChatId("timeout", qid, 0),
     status |-> "timeout", error_type |-> "dot_timeout"]

\* submit_questions_async has returned the futures map (keys in insertion
\* order) and poll_results is entered: results empty, start = now.  writes
\* counts the assignments to results[qid].
InitPoll ==
    /\ \E tasks \in {<<>>, <<"1">>, <<"1", "2">>, <<"2", "1", "3">>},
          limit \in {0, 1} :
         last = [kind |-> "poll", pc |-> "top",
                 keys |-> tasks,
                 futures |-> [q \in Range(tasks) |-> RunningFuture(q)],
                 max_wall_clock_s |-> limit,
                 results |-> <<>>, writes |-> [q \in Range(tasks) |-> 0],
                 now |-> 0, elapsed |-> 0, poll_idx |-> 0,
                 i |-> 1, pending |-> <<>>, newly_done |-> <<>>,
                 returned_by |-> "None"]
    /\ fees = <<>>
    /\ fee_by_id = <<>>
    /\ merchant_info = <<>>
    /\ monthly_lookup = <<>>
    /\ payments = <<>>
    /\ loaded = <<>>
    /\ NoRule

\* A worker thread ends _execute_question: its future becomes done, with the
\* returned status or with an exception.
WorkerFinishes ==
    /\ last.kind = "poll"
    /\ last.pc # "done"
    /\ \E q \in DOMAIN last.futures :
         /\ last.futures[q].state = "running"
         /\ \E f \in { [state |-> "returned", value |-> v] : v \in WorkerResults(q) }
                     \cup { [state |-> "raised", value |-> DefaultStatus(q)] } :
              last' = [last EXCEPT !.futures[q] = f]
    /\ Frame
    /\ UNCHANGED ruleVars

\* The head of one iteration of while True.
PollTop ==
    /\ last.kind = "poll"
    /\ last.pc = "top"
    /\ last' = [last EXCEPT !.elapsed = last.now, !.pending = <<>>,
                            !.newly_done = <<>>, !.i = 1, !.pc = "scan"]
    /\ Frame
    /\ UNCHANGED ruleVars

\* One iteration of "for qid, future in futures.items()"; the loop ends when
\* the keys are used up.
PollScan ==
    /\ last.kind = "poll"
    /\ last.pc = "scan"
    /\ last' =
         IF last.i > Len(last.keys)
         THEN [last EXCEPT !.pc = "check"]
         ELSE LET qid == last.keys[last.i] IN
              IF qid \in DOMAIN last.results
              THEN [last EXCEPT !.i = @ + 1]
              ELSE IF last.futures[qid].state # "running"
              THEN [last EXCEPT
                      !.i = @ + 1,
                      !.results = [q \in DOMAIN last.results \cup {qid} |->
                                     IF q = qid THEN Collect(qid, last.futures[qid])
                                     ELSE last.results[q]],
                      !.writes[qid] = @ + 1,
                      !.newly_done = Append(@, qid)]
              ELSE [last EXCEPT !.i = @ + 1, !.pending = Append(@, qid)]
    /\ Frame
    /\ UNCHANGED ruleVars

\* "if not pending: break".
PollAllDone ==
    /\ last.kind = "poll"
    /\ last.pc = "check"
    /\ last.pending = <<>>
    /\ last' = [last EXCEPT !.pc = "done", !.returned_by = "all_done"]
    /\ Frame
    /\ UNCHANGED ruleVars

\* "if elapsed > max_wall_clock_s": every pending question gets a timeout
\* entry (future.cancel() does not stop a running or a finished worker).
PollApplyLimit ==
    /\ last.kind = "poll"
    /\ last.pc = "check"
    /\ last.pending # <<>>
    /\ last.elapsed > last.max_wall_clock_s
    /\ last' = [last EXCEPT
                  !.pc = "done", !.returned_by = "limit",
                  !.results = [q \in DOMAIN last.results \cup Range(last.pending) |->
                                 IF q \in Range(last.pending) THEN TimeoutEntry(q)
                                 ELSE last.results[q]],
                  !.writes = [q \in DOMAIN last.writes |->
                                IF q \in Range(last.pending) THEN last.writes[q] + 1
                                ELSE last.writes[q]]]
    /\ Frame
    /\ UNCHANGED ruleVars

\* time.sleep(wait); poll_idx += 1.  The wait is at least 5 seconds: one unit
\* of the clock.
PollSleep ==
    /\ last.kind = "poll"
    /\ last.pc = "check"
    /\ last.pending # <<>>
    /\ ~(last.elapsed > last.max_wall_clock_s)
    /\ last' = [last EXCEPT !.now = @ + 1, !.poll_idx = @ + 1, !.pc = "top"]
    /\ Frame
    /\ UNCHANGED ruleVars

PollStep == PollTop \/ PollScan \/ PollAllDone \/ PollApplyLimit \/ PollSleep

NextPoll == WorkerFinishes \/ PollStep

\* The polling thread keeps running; nothing is assumed of the workers, which
\* may never finish.
SpecPoll == InitPoll /\ [][NextPoll]_vars /\ WF_vars(PollStep)

C22_PollContract ==
    /\ last.kind = "poll"
    /\ \A q \in DOMAIN last.results :
         /\ last.results[q].question_id = q
         /\ last.writes[q] = 1
    /\ last.pc = "done" =>
         /\ DOMAIN last.results = DOMAIN last.futures
         /\ last.returned_by \in {"all_done", "limit"}
         /\ last.returned_by = "all_done" =>
              \A q \in DOMAIN last.futures : last.futures[q].state # "running"
         /\ last.returned_by = "limit" => last.elapsed > last.max_wall_clock_s
         /\ \A q \in DOMAIN last.results :
              IF last.returned_by = "limit" /\ q \in Range(last.pending)
              THEN /\ last.results[q].status = "timeout"
                   /\ last.results[q].error_type = "dot_timeout"
              ELSE IF last.futures[q].state = "raised"
              THEN /\ last.results[q].status = "error"
                   /\ last.results[q].error_type = "client_error"
              ELSE last.results[q] = last.futures[q].value

C29_TimeoutOnlyForUnfinishedWorkers ==
    (last.kind = "poll" /\ last.pc = "done") =>
        \A q \in DOMAIN last.results :
            /\ last.writes[q] = 1
            /\ last.results[q] = TimeoutEntry(q) => last.futures[q].state = "running"

\* ---------------------------------------------------------------------------
\* The iterate loop: run_iterate_loop.
\* ---------------------------------------------------------------------------

\* The number of tasks of one evaluation run.  An accuracy is recorded as the
\* number of correct answers out of TaskCount, so accuracy >= 1.0 reads
\* correct >= TaskCount.
TaskCount == 3

\* A comparison that also takes an equal score for an improvement, used to
\* check the sensitivity of the stopping rule.
IsImprovementOrEqual(accuracy, best_score) == accuracy >= best_score

\* "if accuracy > best_score".
IsImprovement(accuracy, best_score) == accuracy > best_score

\* _load_score_history() and the locals of run_iterate_loop before the loop;
\* max((h["accuracy"] for h in history), default=0.0).
InitIterate ==
    /\ \E loaded_history \in {<<>>} \cup
              { <<[accuracy |-> a, instructions_updated |-> FALSE]>> : a \in 0..TaskCount },
          max_iterations \in 0..4, max_stale \in 0..2 :
         last = [kind |-> "iterate", pc |-> "loop", iteration |-> 1,
                 max_iterations |-> max_iterations, max_stale |-> max_stale,
                 loaded |-> Len(loaded_history), history |-> loaded_history,
                 best_score |-> MaxOf({0} \cup { loaded_history[i].accuracy :
                                                   i \in DOMAIN loaded_history }),
                 stale_count |-> 0,
                 result |-> [iterations |-> 0, best_accuracy |-> 0]]
    /\ fees = <<>>
    /\ fee_by_id = <<>>
    /\ merchant_info = <<>>
    /\ monthly_lookup = <<>>
    /\ payments = <<>>
    /\ loaded = <<>>
    /\ NoRule

\* One iteration of "for iteration in range(1, max_iterations + 1)": the
\* evaluation run gives an accuracy, the instructions are updated or not, the
\* entry is appended to the history, and the stopping conditions are checked.
Iterate ==
    /\ last.kind = "iterate"
    /\ last.pc = "loop"
    /\ last.iteration <= last.max_iterations
    /\ \E accuracy \in 0..TaskCount, updated \in BOOLEAN :
         LET history == Append(last.history,
                               [accuracy |-> accuracy, instructions_updated |-> updated])
             improved == IsImprovement(accuracy, last.best_score)
             best_score == IF improved THEN accuracy ELSE last.best_score
             stale_count == IF improved THEN 0 ELSE last.stale_count + 1
         IN  last' =
               IF accuracy >= TaskCount
               THEN [last EXCEPT !.history = history, !.pc = "after_loop"]
               ELSE [last EXCEPT !.history = history,
                                 !.best_score = best_score,
                                 !.stale_count = stale_count,
                                 !.iteration = @ + 1,
                                 !.pc = IF stale_count >= last.max_stale
                                        THEN "after_loop" ELSE "loop"]
    /\ Frame
    /\ UNCHANGED ruleVars

\* The range is used up, or a break was taken: the final summary and the
\* returned dict.
ReturnSummary ==
    /\ last.kind = "iterate"
    /\ \/ last.pc = "after_loop"
       \/ last.pc = "loop" /\ last.iteration > last.max_iterations
    /\ last' = [last EXCEPT !.pc = "done",
                            !.result = [iterations |-> Len(last.history),
                                        best_accuracy |-> last.best_score]]
    /\ Frame
    /\ UNCHANGED ruleVars

NextIterate == Iterate \/ ReturnSummary

\* Every evaluation run returns, so the loop keeps stepping.
SpecIterate == InitIterate /\ [][NextIterate]_vars /\ WF_vars(NextIterate)

\* The accuracy of the j-th iteration executed in the call.
AccuracyOf(j) == last.history[last.loaded + j].accuracy

\* The best accuracy seen before the j-th iteration: over the loaded history
\* and the iterations before it.
BestBefore(j) ==
    MaxOf({0} \cup { last.history[i].accuracy : i \in 1..(last.loaded + j - 1) })

\* The number of consecutive iterations, ending with the j-th, that did not
\* exceed the best accuracy seen before them.
RECURSIVE StaleRun(_)
StaleRun(j) ==
    IF j = 0 THEN 0
    ELSE IF AccuracyOf(j) > BestBefore(j) THEN 0
    ELSE 1 + StaleRun(j - 1)

\* The stopping conditions of the specification after the j-th iteration.
MustStopAfter(j) ==
    \/ AccuracyOf(j) >= TaskCount
    \/ StaleRun(j) >= last.max_stale

C23_StoppingRule ==
    LET runs == Len(last.history) - last.loaded IN
    /\ last.kind = "iterate"
    /\ runs <= last.max_iterations
    /\ last.pc = "done" =>
         /\ \A j \in 1..(runs - 1) : ~MustStopAfter(j)
         /\ runs < last.max_iterations => (runs >= 1 /\ MustStopAfter(runs))

\* C23: run_iterate_loop always terminates, after at most max_iterations
\* evaluation runs, and it stops before max_iterations exactly when an
\* iteration reached accuracy >= 1.0 or when max_stale consecutive iterations
\* failed to exceed the best accuracy seen so far (a strictly better
\* iteration resets the count).
C23_IterateLoopStopsByRule ==
    /\ []C23_StoppingRule
    /\ <>(last.pc = "done")

\* With max_stale 2 and max_iterations 4 the loop stops after three runs: an
\* improvement, then an equal and a lower score.
C23_Witness ==
    /\ last.kind = "iterate"
    /\ last.pc = "done"
    /\ last.max_stale = 2
    /\ last.max_iterations = 4
    /\ last.loaded = 1
    /\ Len(last.history) = 4
    /\ AccuracyOf(1) > BestBefore(1)
    /\ AccuracyOf(2) = BestBefore(2)
    /\ AccuracyOf(3) < BestBefore(3)

\* C30: the best_accuracy returned by run_iterate_loop is the maximum
\* accuracy over the loaded score history and the iterations executed in the
\* call, whichever condition ended the loop; it is 1.0 when the loop stopped
\* on a perfect score.
C30_BestAccuracyIsTheMaximum ==
    (last.kind = "iterate" /\ last.pc = "done") =>
        last.result.best_accuracy
            = MaxOf({0} \cup { last.history[i].accuracy : i \in DOMAIN last.history })

\* ---------------------------------------------------------------------------
\* The sequential runner: run_eval.
\* ---------------------------------------------------------------------------

MAX_CONSECUTIVE_ERRORS == 2

\* A count that a successful query leaves as it is, used to check the
\* sensitivity of the fail-fast rule.
ConsecutiveAfterNoReset(consecutive_errors, o) ==
    IF o.kind = "response" THEN consecutive_errors ELSE consecutive_errors + 1

\* consecutive_errors after one client.query: 0 after a response, one more
\* after DotHttpError, DotEmptyResponseError or any other exception.
ConsecutiveAfter(consecutive_errors, o) ==
    IF o.kind = "response" THEN 0 ELSE consecutive_errors + 1

\* load_tasks has returned the tasks (question IDs, in order); the counters of
\* run_eval are at their initial values and the results file is open.
InitEval ==
    /\ \E tasks \in { SubSeq(<<"1", "2", "3", "4", "5">>, 1, n) : n \in 0..5 } :
         last = [kind |-> "eval", pc |-> "loaded", tasks |-> tasks, next |-> 1,
                 consecutive_errors |-> 0, total |-> 0, total_score |-> 0,
                 records |-> <<>>, submission_rows |-> <<>>,
                 submission_file |-> <<>>, raised |-> None]
    /\ fees = <<>>
    /\ fee_by_id = <<>>
    /\ merchant_info = <<>>
    /\ monthly_lookup = <<>>
    /\ payments = <<>>
    /\ loaded = <<>>
    /\ NoRule

\* "if not tasks: raise ValueError"; otherwise the loop is entered.
CheckTasksLoaded ==
    /\ last.kind = "eval"
    /\ last.pc = "loaded"
    /\ last' = IF last.tasks = <<>>
               THEN [last EXCEPT !.pc = "done", !.raised = "ValueError"]
               ELSE [last EXCEPT !.pc = "loop"]
    /\ Frame
    /\ UNCHANGED ruleVars

\* One iteration of "for task in tasks": the query and its handlers, the
\* score, the record written to the results file, the submission row, and the
\* fail-fast test.
EvalTask ==
    /\ last.kind = "eval"
    /\ last.pc = "loop"
    /\ last.next <= Len(last.tasks)
    /\ \E o \in { x \in ClientOutcomes : x.status_code \in {0, 200, 429, 500} } :
         LET task == last.tasks[last.next]
             dot_error_type ==
                 IF o.kind = "response" THEN None
                 ELSE IF o.kind = "DotHttpError" THEN "dot_http_error"
                 ELSE IF o.kind = "DotEmptyResponseError" THEN "dot_empty_response"
                 ELSE "client_error"
             dot_status ==
                 IF o.kind = "response" \/ o.kind = "DotEmptyResponseError" THEN 200
                 ELSE o.status_code
             consecutive_errors == ConsecutiveAfter(last.consecutive_errors, o)
             scored == IF dot_error_type # None
                       THEN [score |-> 0, error_type |-> dot_error_type]
                       ELSE score_answer(o.text)
             record == [question_id |-> task, dot_response_raw |-> o.text,
                        score |-> scored.score, error_type |-> scored.error_type,
                        dot_status |-> dot_status]
             row == [task_id |-> task, reasoning_trace |-> o.text]
         IN  last' = [last EXCEPT
                        !.consecutive_errors = consecutive_errors,
                        !.total_score = @ + scored.score,
                        !.total = @ + 1,
                        !.records = Append(@, record),
                        !.submission_rows = Append(@, row),
                        !.next = @ + 1,
                        !.pc = IF consecutive_errors >= MAX_CONSECUTIVE_ERRORS
                               THEN "after_loop" ELSE "loop"]
    /\ Frame
    /\ UNCHANGED ruleVars

\* After the loop (tasks used up, or the fail-fast break): the submission
\* file is written from submission_rows and the results path is returned.
WriteSubmission ==
    /\ last.kind = "eval"
    /\ \/ last.pc = "after_loop"
       \/ last.pc = "loop" /\ last.next > Len(last.tasks)
    /\ last' = [last EXCEPT !.pc = "done", !.submission_file = last.submission_rows]
    /\ Frame
    /\ UNCHANGED ruleVars

NextEval == CheckTasksLoaded \/ EvalTask \/ WriteSubmission

SpecEval == InitEval /\ [][NextEval]_vars

\* A record of a Dot failure: HTTP error, empty response or client error.
DotFailure(record) ==
    record.error_type \in {"dot_http_error", "dot_empty_response", "client_error"}

\* The number of consecutive Dot failures ending with the k-th record.
RECURSIVE FailureRun(_)
FailureRun(k) ==
    IF k = 0 THEN 0
    ELSE IF DotFailure(last.records[k]) THEN 1 + FailureRun(k - 1)
    ELSE 0

\* C25: run_eval processes the tasks in order and writes one result record
\* and one submission row per processed task; it aborts right after the task
\* at which the count of consecutive Dot failures reaches 2, a successful
\* query resets the count to 0, and without two consecutive failures every
\* loaded task is processed.
C25_RunEvalFailsFastAfterTwoFailures ==
    last.kind = "eval" =>
        LET n == Len(last.records) IN
        /\ n <= Len(last.tasks)
        /\ Len(last.submission_rows) = n
        /\ last.total = n
        /\ \A k \in 1..n :
             /\ last.records[k].question_id = last.tasks[k]
             /\ last.submission_rows[k].task_id = last.tasks[k]
        /\ last.consecutive_errors = FailureRun(n)
        /\ \A k \in 1..(n - 1) : FailureRun(k) < 2
        /\ (last.pc = "done" /\ last.raised = None) =>
             /\ last.submission_file = last.submission_rows
             /\ n < Len(last.tasks) => FailureRun(n) = 2
             /\ FailureRun(n) < 2 => n = Len(last.tasks)

\* A failure, a success, then two failures: the run is aborted after the
\* fourth of five tasks.
C25_Witness ==
    /\ last.kind = "eval"
    /\ last.pc = "done"
    /\ Len(last.tasks) = 5
    /\ Len(last.records) = 4
    /\ DotFailure(last.records[1])
    /\ ~DotFailure(last.records[2])
    /\ DotFailure(last.records[3])
    /\ DotFailure(last.records[4])
    /\ Len(last.submission_file) = 4

====
